---- MODULE Spec2Model ----
(***************************************************************************)
(* A model of eval.c, the toolkit for evaluating student code: the three   *)
(* verification logs, the statistics counters, the pointer probe           *)
(* (eval_checkptr / eval_checkconstptr), the abnormal-termination capture  *)
(* (_eval_arm_signals / _eval_sighandler / _eval_disarm_signals) and the   *)
(* intercept functions (_eval_sleep, _eval_msgget, ...).                   *)
(*                                                                         *)
(* Text is modelled as a tuple of characters, so that strstr and the       *)
(* truncation done by vsnprintf are computed and not assumed.              *)
(***************************************************************************)
EXTENDS Integers, Sequences, FiniteSets, TLC

VARIABLES
    logs,       \* _success_log, _error_log, _data_log: buffer, start, end
    consumed,   \* history: per log, the lines removed by rmheadmsg since initlog
    stats,      \* _eval_stats: error and info counters
    env,        \* _eval_env: catch, stat, timeout, signal, sigactions[5]
    disp,       \* the process' disposition of the five signals eval uses
    timer,      \* ITIMER_PROF: remaining microseconds, 0 when not running
    pc,         \* where control is: driver, tested code, recovery point, ...
    probe,      \* eval_checkptr in progress: its locals and _eval_checkptr_data
    rec,        \* _eval_<op>_data for every intercepted operation
    errno,      \* the C errno
    call,       \* history: the last harness call made, its argument and result
    hist        \* history: dispositions before the last arm and the last probe

vars == <<logs, consumed, stats, env, disp, timer, pc, probe, rec, errno, call, hist>>

-----------------------------------------------------------------------------
(* Bounds of the model *)

\* number of lines a log holds (LOGSIZE of eval.h, scaled down)
LOGSIZE == 2
\* size of a log line in characters, terminator included (LOGLINE of eval.h)
LOGLINE == 8
\* the counters of _eval_stats are followed up to this value
MaxStat == 3
\* an intercept's invocation counter is followed up to this value
MaxCalls == 3

-----------------------------------------------------------------------------
(* Text *)

Min(a, b) == IF a < b THEN a ELSE b

\* the string constant "<empty>" of loghead
EmptyText == <<"<", "e", "m", "p", "t", "y", ">">>

\* the messages the driver and the tested code write to a log
LongText == <<"b", "a", "b", "a", "b", "a", "b", "a", "b">>
Texts == { <<"a">>, LongText }

\* the messages an assertion may look for at the head of a log
Needles == { <<>>, <<"a">>, <<"b">>, EmptyText }

\* vsnprintf( dst, size, ... ): at most size-1 characters are stored
vsnprintf_full(text, size) == SubSeq(text, 1, Min(Len(text), size))
vsnprintf(text, size) == SubSeq(text, 1, Min(Len(text), size - 1))

\* every line a log buffer can hold
Lines == { vsnprintf(t, LOGLINE) : t \in Texts }

\* strstr( hay, needle ) != NULL
strstr_eq(hay, needle) == hay = needle
strstr(hay, needle) ==
    \E i \in 0..(Len(hay) - Len(needle)) :
        SubSeq(hay, i + 1, i + Len(needle)) = needle

-----------------------------------------------------------------------------
(* Statistics: eval_error, eval_info, eval_success, eval_reset_stats *)

eval_error_once(st, n) == [st EXCEPT !.error = @ + 1]
eval_error(st, n) == [st EXCEPT !.error = @ + n]
eval_info(st, n) == [st EXCEPT !.info = @ + n]
eval_success_error(st, n) == [st EXCEPT !.error = @ + n]
eval_success(st, n) == [st EXCEPT !.info = @ + n]
eval_reset_stats(st) == [error |-> 0, info |-> 0]

\* the counters can still take n more messages within the bound
Room(n) == stats.error + n <= MaxStat /\ stats.info + n <= MaxStat

-----------------------------------------------------------------------------
(* Signals and the process' dispositions *)

SIGSEGV == "SIGSEGV"
SIGBUS == "SIGBUS"
SIGFPE == "SIGFPE"
SIGILL == "SIGILL"
SIGPROF == "SIGPROF"

\* _eval_env.sigactions[0..4] hold the dispositions of these, in this order
SigOf == <<SIGSEGV, SIGBUS, SIGFPE, SIGILL, SIGPROF>>
Signals == { SigOf[i] : i \in 1..5 }
Faults == { SIGSEGV, SIGBUS, SIGFPE, SIGILL }

\* value of _eval_env.signal and _eval_checkptr_data.sig when no signal was caught
NoSignal == "-1"

\* dispositions a process can have before eval touches them
UserDisps == { "SIG_DFL", "h1" }
CaptureHandler == "_eval_sighandler"
ProbeHandler == "_eval_checkptr_sighndlr"

\* outcome tags carried to the recovery point (the value sigsetjmp returns)
Normal == "0"
EVAL_CATCH_EXIT == "EVAL_CATCH_EXIT"
EVAL_CATCH_ABORT == "EVAL_CATCH_ABORT"
EVAL_CATCH_BLOCKED == "EVAL_CATCH_BLOCKED"
EVAL_CATCH_SIGNAL == "EVAL_CATCH_SIGNAL"
EVAL_CATCH_LOG_OVERFLOW == "EVAL_CATCH_LOG_OVERFLOW"

\* _eval_env.timeout is in seconds; the model counts it in units of 1/SubUsec
\* microsecond, so that a positive timeout below one microsecond exists
SubUsec == 2
Timeouts == { -1, 0, 1, 4 }

\* it_value of the timer: floor(timeout) seconds and floor of the rest in usec
ItimerValue(timeout) == timeout \div SubUsec

-----------------------------------------------------------------------------
(* Abnormal termination capture: _eval_arm_signals, _eval_disarm_signals *)

\* sigaction( sig, &act, &_eval_env.sigactions[i] ) for the four faults, and
\* for SIGPROF only if timeout > 0; then _eval_env.signal = -1
ArmedEnv_keep(e, d) ==
    [e EXCEPT !.sigactions = [i \in 1..5 |->
                                IF i <= 4 \/ e.timeout > 0 THEN d[SigOf[i]] ELSE @[i]]]
ArmedEnv(e, d) ==
    [e EXCEPT !.sigactions = [i \in 1..5 |->
                                IF i <= 4 \/ e.timeout > 0 THEN d[SigOf[i]] ELSE @[i]],
              !.signal = NoSignal]

ArmedDisp(e, d) ==
    [s \in Signals |->
        IF s \in Faults \/ e.timeout > 0 THEN CaptureHandler ELSE d[s]]

ArmedTimer(e, t) == IF e.timeout > 0 THEN ItimerValue(e.timeout) ELSE t

\* sigaction( sig, &_eval_env.sigactions[i], NULL ), SIGPROF only if timeout > 0
DisarmedDisp_bus(e, d) ==
    [s \in Signals |->
        IF s = SIGPROF THEN (IF e.timeout > 0 THEN e.sigactions[5] ELSE d[s])
        ELSE IF s = SIGSEGV \/ s = SIGBUS THEN e.sigactions[1]
        ELSE IF s = SIGFPE THEN e.sigactions[3]
        ELSE e.sigactions[4]]
DisarmedDisp(e, d) ==
    [s \in Signals |->
        IF s = SIGPROF THEN (IF e.timeout > 0 THEN e.sigactions[5] ELSE d[s])
        ELSE IF s = SIGSEGV THEN e.sigactions[1]
        ELSE IF s = SIGBUS THEN e.sigactions[2]
        ELSE IF s = SIGFPE THEN e.sigactions[3]
        ELSE e.sigactions[4]]

\* setitimer( ITIMER_PROF, {0,0}, NULL ) only if timeout > 0
DisarmedTimer(e, t) == IF e.timeout > 0 THEN 0 ELSE t

-----------------------------------------------------------------------------
(* Pointer probe: eval_checkptr, eval_checkconstptr, _eval_checkptr_sighndlr *)

\* addresses: NULL, (void*)-1, and one address of each kind of memory
Ptrs == { "NULL", "MINUS1", "rw", "ro", "unmapped", "misaligned" }

\* the signal the single-byte read raises, NoSignal if it succeeds
ReadFault(ptr) ==
    IF ptr = "unmapped" THEN SIGSEGV
    ELSE IF ptr = "misaligned" THEN SIGBUS
    ELSE NoSignal

\* the signal the write-back raises, NoSignal if it succeeds
WriteFault(ptr) == IF ptr = "ro" THEN SIGSEGV ELSE NoSignal

\* the access between sigsetjmp and the restore: *p is read and, in
\* eval_checkptr only, written back
AccessFault(ptr, const) ==
    IF ReadFault(ptr) # NoSignal THEN ReadFault(ptr)
    ELSE IF const THEN NoSignal
    ELSE WriteFault(ptr)

\* sigaction( SIGSEGV, &act, &tmp[0] ); sigaction( SIGBUS, &act, &tmp[1] )
ProbeSaved(d) == <<d[SIGSEGV], d[SIGBUS]>>
ProbeInstalled_segv(d) == [d EXCEPT ![SIGSEGV] = ProbeHandler]
ProbeInstalled(d) == [d EXCEPT ![SIGSEGV] = ProbeHandler, ![SIGBUS] = ProbeHandler]

\* sigaction( SIGSEGV, &tmp[0], NULL ); sigaction( SIGBUS, &tmp[0], NULL )
ProbeRestored(d, tmp) == [d EXCEPT ![SIGSEGV] = tmp[1], ![SIGBUS] = tmp[1]]

\* the switch on _eval_checkptr_data.sig after the restore
ProbeVerdict_swapped(stat, sig) ==
    IF stat = 0 THEN 0
    ELSE IF sig = SIGSEGV THEN 4
    ELSE IF sig = SIGBUS THEN 3
    ELSE 5
ProbeVerdict(stat, sig) ==
    IF stat = 0 THEN 0
    ELSE IF sig = SIGSEGV THEN 3
    ELSE IF sig = SIGBUS THEN 4
    ELSE 5

\* the two tests made before any signal handler is installed
ProbeEarly(ptr) ==
    IF ptr = "NULL" THEN 1
    ELSE IF ptr = "MINUS1" THEN 2
    ELSE 0

-----------------------------------------------------------------------------
(* The record of the last call, and the control state *)

CallRec(op, log, arg, ret, text) ==
    [op |-> op, log |-> log, arg |-> arg, ret |-> ret, text |-> text]

NoCall == CallRec("none", "-", <<>>, 0, <<>>)

\* eval_checkptr is not running
ProbeIdle == [pc |-> "idle", ptr |-> "NULL", const |-> FALSE,
              tmp |-> <<"SIG_DFL", "SIG_DFL">>, stat |-> 0, sig |-> NoSignal]

\* the harness or the tested code is running and may call into eval.c
Running == pc \in { "driver", "tested" } /\ probe.pc = "idle"

\* siglongjmp( _eval_env.jmp, tag ): control resumes where sigsetjmp returned,
\* with tag as its value; outside a capture cycle there is no such place
Jump(tag) ==
    IF pc = "tested"
    THEN /\ pc' = "recovered"
         /\ env' = [env EXCEPT !.stat = tag]
    ELSE /\ pc' = "undefined"
         /\ env' = env

-----------------------------------------------------------------------------
(* Verification logs: initlog, newline, eval_log, rmheadmsg, loghead *)

LogIds == { "success", "error", "data" }

\* a log after initlog on zeroed storage
FreshLog == [buffer |-> [i \in 0..(LOGSIZE - 1) |-> <<>>], start |-> -1, end |-> 0]

\* the model follows one log at a time: the others are as initlog left them
OnlyLog(l) == \A k \in LogIds \ {l} : logs[k] = FreshLog

\* initlog( log )
initlog(log) == [log EXCEPT !.start = -1, !.end = 0]

\* newline( log ), when log->end < LOGSIZE: the index of the new line and the
\* log with its indices updated
HasRoom_le(log) == log.end <= LOGSIZE - 2
HasRoom(log) == log.end < LOGSIZE
newline(log) ==
    [log EXCEPT !.start = IF @ < 0 THEN 0 ELSE @, !.end = @ + 1]

\* loghead( log )
loghead(log) == IF log.start < 0 THEN EmptyText ELSE log.buffer[log.start]

Initlog(l) ==
    /\ Running
    /\ OnlyLog(l)
    /\ logs' = [logs EXCEPT ![l] = initlog(@)]
    /\ consumed' = [consumed EXCEPT ![l] = <<>>]
    /\ call' = CallRec("initlog", l, <<>>, 0, <<>>)
    /\ UNCHANGED <<stats, env, disp, timer, pc, probe, rec, errno, hist>>

\* eval_log( log, format, ... ), and so datalog, errorlog and successlog:
\* vsnprintf( newline( log ), LOGLINE, ... )
EvalLog(l, text) ==
    /\ Running
    /\ OnlyLog(l)
    /\ call' = CallRec("eval_log", l, <<>>,
                       IF HasRoom(logs[l]) THEN Len(text) ELSE -1, <<>>)
    /\ IF HasRoom(logs[l])
       THEN /\ logs' = [logs EXCEPT ![l] =
                           [newline(@) EXCEPT !.buffer[logs[l].end] =
                                                  vsnprintf(text, LOGLINE)]]
            /\ UNCHANGED <<stats, env, pc>>
       ELSE \* eval_error twice, then siglongjmp or exit(1)
            /\ Room(2)
            /\ stats' = eval_error(stats, 2)
            /\ logs' = logs
            /\ IF env.catch
               THEN Jump(EVAL_CATCH_LOG_OVERFLOW)
               ELSE pc' = "exited" /\ env' = env
    /\ UNCHANGED <<consumed, disp, timer, probe, rec, errno, hist>>

\* rmheadmsg( log, msg ). A head index at or beyond LOGSIZE reads past the
\* buffer: the line found there is any line.
Rmheadmsg(l, msg) ==
    /\ Running
    /\ OnlyLog(l)
    /\ logs[l].start <= LOGSIZE
    /\ \E line \in IF logs[l].start \in 0..(LOGSIZE - 1)
                    THEN { logs[l].buffer[logs[l].start] }
                    ELSE Lines :
         IF logs[l].start < 0
         THEN /\ call' = CallRec("rmheadmsg", l, msg, -1, <<>>)
              /\ UNCHANGED <<logs, consumed>>
         ELSE IF strstr(line, msg)
         THEN /\ logs' = [logs EXCEPT ![l].start = @ + 1]
              /\ consumed' = [consumed EXCEPT ![l] = Append(@, line)]
              /\ call' = CallRec("rmheadmsg", l, msg, 0, <<>>)
         ELSE /\ call' = CallRec("rmheadmsg", l, msg, -1, <<>>)
              /\ UNCHANGED <<logs, consumed>>
    /\ UNCHANGED <<stats, env, disp, timer, pc, probe, rec, errno, hist>>

\* loghead( log ), called by the driver or the tested code. A head index at
\* or beyond LOGSIZE reads past the buffer: the line found there is any line.
Loghead(l) ==
    /\ Running
    /\ OnlyLog(l)
    /\ logs[l].start <= LOGSIZE
    /\ \E line \in IF logs[l].start < LOGSIZE THEN { loghead(logs[l]) } ELSE Lines :
         call' = CallRec("loghead", l, <<>>, line, <<>>)
    /\ UNCHANGED <<logs, consumed, stats, env, disp, timer, pc, probe, rec, errno, hist>>

\* eval_check_errorlog( format, ... ): vsnprintf( msg, LOGLINE-1, ... ), then
\* rmheadmsg( &_error_log, msg ); eval_error and 0 if it failed, eval_success
\* and 1 if it removed the head line
EvalCheckErrorlog(text) ==
    /\ pc = "driver"
    /\ probe.pc = "idle"
    /\ logs["error"].start <= LOGSIZE
    /\ LET msg == vsnprintf(text, LOGLINE - 1)
       IN  \E line \in IF logs["error"].start \in 0..(LOGSIZE - 1)
                       THEN { logs["error"].buffer[logs["error"].start] }
                       ELSE Lines :
             IF logs["error"].start >= 0 /\ strstr(line, msg)
             THEN /\ stats.info < MaxStat
                  /\ logs' = [logs EXCEPT !["error"].start = @ + 1]
                  /\ consumed' = [consumed EXCEPT !["error"] = Append(@, line)]
                  /\ stats' = eval_success(stats, 1)
                  /\ call' = CallRec("eval_check_errorlog", "error", msg, 1, text)
             ELSE /\ stats.error < MaxStat
                  /\ stats' = eval_error(stats, 1)
                  /\ call' = CallRec("eval_check_errorlog", "error", msg, 0, text)
                  /\ UNCHANGED <<logs, consumed>>
    /\ UNCHANGED <<env, disp, timer, pc, probe, rec, errno, hist>>

\* eval_check_successlog( format, ... ): the same on _success_log
EvalCheckSuccesslog(text) ==
    /\ pc = "driver"
    /\ probe.pc = "idle"
    /\ logs["success"].start <= LOGSIZE
    /\ LET msg == vsnprintf(text, LOGLINE - 1)
       IN  \E line \in IF logs["success"].start \in 0..(LOGSIZE - 1)
                       THEN { logs["success"].buffer[logs["success"].start] }
                       ELSE Lines :
             IF logs["success"].start >= 0 /\ strstr(line, msg)
             THEN /\ stats.info < MaxStat
                  /\ logs' = [logs EXCEPT !["success"].start = @ + 1]
                  /\ consumed' = [consumed EXCEPT !["success"] = Append(@, line)]
                  /\ stats' = eval_success(stats, 1)
                  /\ call' = CallRec("eval_check_successlog", "success", msg, 1, text)
             ELSE /\ stats.error < MaxStat
                  /\ stats' = eval_error(stats, 1)
                  /\ call' = CallRec("eval_check_successlog", "success", msg, 0, text)
                  /\ UNCHANGED <<logs, consumed>>
    /\ UNCHANGED <<env, disp, timer, pc, probe, rec, errno, hist>>

\* the lines eval_close_logs prints for a log: those from start to end, if
\* start >= 0 and start < end
Remaining_all(log) == [i \in 1..log.end |-> log.buffer[i - 1]]
Remaining_lines(log) ==
    IF log.start >= 0 /\ log.start < log.end
    THEN [i \in 1..(log.end - log.start) |-> log.buffer[log.start + i - 1]]
    ELSE <<>>

\* eval_clear_logs(): initlog on the three logs
eval_clear_logs(ls) == [l \in LogIds |-> initlog(ls[l])]

EvalClearLogs ==
    /\ pc = "driver"
    /\ probe.pc = "idle"
    /\ logs' = eval_clear_logs(logs)
    /\ consumed' = [l \in LogIds |-> <<>>]
    /\ call' = CallRec("eval_clear_logs", "-", <<>>, 0, <<>>)
    /\ UNCHANGED <<stats, env, disp, timer, pc, probe, rec, errno, hist>>

\* eval_close_logs( msg ): for the success log and then the error log, if
\* lines remain, eval_info and the lines printed; then eval_clear_logs. The
\* call record holds the lines printed, per log.
EvalCloseLogs(msg) ==
    /\ pc = "driver"
    /\ probe.pc = "idle"
    /\ LET printed == [l \in { "success", "error" } |-> Remaining_lines(logs[l])]
           ninfo == Cardinality({ l \in { "success", "error" } : printed[l] # <<>> })
       IN  /\ stats.info + ninfo <= MaxStat
           /\ stats' = eval_info(stats, ninfo)
           /\ call' = CallRec("eval_close_logs", "-", msg, printed, <<>>)
    /\ logs' = eval_clear_logs(logs)
    /\ consumed' = [l \in LogIds |-> <<>>]
    /\ UNCHANGED <<env, disp, timer, pc, probe, rec, errno, hist>>

\* eval_reset_stats()
ResetStats ==
    /\ pc = "driver"
    /\ probe.pc = "idle"
    /\ stats' = eval_reset_stats(stats)
    /\ call' = CallRec("eval_reset_stats", "-", <<>>, 0, <<>>)
    /\ UNCHANGED <<logs, consumed, env, disp, timer, pc, probe, rec, errno, hist>>

\* eval_error( text ), eval_info( text ) and eval_success( text ) called by
\* the driver: the message is printed, a counter is raised and returned
EvalError(text) ==
    /\ pc = "driver"
    /\ probe.pc = "idle"
    /\ stats.error < MaxStat
    /\ stats' = eval_error(stats, 1)
    /\ call' = CallRec("eval_error", "-", text, stats'.error, <<>>)
    /\ UNCHANGED <<logs, consumed, env, disp, timer, pc, probe, rec, errno, hist>>

EvalInfo(text) ==
    /\ pc = "driver"
    /\ probe.pc = "idle"
    /\ stats.info < MaxStat
    /\ stats' = eval_info(stats, 1)
    /\ call' = CallRec("eval_info", "-", text, stats'.info, <<>>)
    /\ UNCHANGED <<logs, consumed, env, disp, timer, pc, probe, rec, errno, hist>>

EvalSuccess(text) ==
    /\ pc = "driver"
    /\ probe.pc = "idle"
    /\ stats.info < MaxStat
    /\ stats' = eval_success(stats, 1)
    /\ call' = CallRec("eval_success", "-", text, stats'.info, <<>>)
    /\ UNCHANGED <<logs, consumed, env, disp, timer, pc, probe, rec, errno, hist>>

\* eval_complete( msg ): the banner is printed and the error counter returned
EvalComplete(text) ==
    /\ pc = "driver"
    /\ probe.pc = "idle"
    /\ call' = CallRec("eval_complete", "-", text, stats.error, <<>>)
    /\ UNCHANGED <<logs, consumed, stats, env, disp, timer, pc, probe, rec, errno,
                   hist>>

-----------------------------------------------------------------------------
(* The capture cycle around the tested code (the EVAL_CATCH macro) *)

\* the recovery point is set, the signals are armed and the tested code starts
CatchBegin ==
    /\ pc = "driver"
    /\ probe.pc = "idle"
    /\ env' = [ArmedEnv(env, disp) EXCEPT !.stat = Normal, !.catch = TRUE]
    /\ disp' = ArmedDisp(env, disp)
    /\ timer' = ArmedTimer(env, timer)
    /\ pc' = "tested"
    /\ hist' = [hist EXCEPT !.armDisp = disp, !.interrupted = FALSE, !.ran = TRUE]
    /\ call' = CallRec("_eval_arm_signals", "-", <<>>, 0, <<>>)
    /\ UNCHANGED <<logs, consumed, stats, probe, rec, errno>>

\* _eval_disarm_signals()
Disarm(how) ==
    /\ env' = [env EXCEPT !.catch = FALSE]
    /\ disp' = DisarmedDisp(env, disp)
    /\ timer' = DisarmedTimer(env, timer)
    /\ pc' = "driver"
    /\ call' = CallRec("_eval_disarm_signals", "-", <<>>, 0, how)
    /\ UNCHANGED <<logs, consumed, stats, probe, rec, errno, hist>>

\* the tested code returns normally
CatchEnd ==
    /\ pc = "tested"
    /\ probe.pc = "idle"
    /\ Disarm(<<"r">>)

\* control is at the recovery point after an escape
Recover ==
    /\ pc = "recovered"
    /\ Disarm(<<"e">>)

\* the driver sets _eval_env.timeout between capture cycles
SetTimeout(t) ==
    /\ pc = "driver"
    /\ probe.pc = "idle"
    /\ env' = [env EXCEPT !.timeout = t]
    /\ call' = CallRec("timeout", "-", <<>>, t, <<>>)
    /\ UNCHANGED <<logs, consumed, stats, disp, timer, pc, probe, rec, errno, hist>>

-----------------------------------------------------------------------------
(* Signal delivery: _eval_sighandler and the timer *)

\* _eval_sighandler( sig ): eval_error, _eval_env.signal = sig, siglongjmp
SigHandler(sig) ==
    /\ Room(1)
    /\ stats' = eval_error(stats, 1)
    /\ pc' = "recovered"
    /\ env' = [env EXCEPT !.signal = sig, !.stat = EVAL_CATCH_SIGNAL]
    /\ probe' = ProbeIdle
    /\ hist' = [hist EXCEPT !.interrupted = (probe.pc # "idle")]

\* sig is raised while the tested code runs outside the probe's protected access
Deliver(sig) ==
    IF disp[sig] = CaptureHandler
    THEN SigHandler(sig)
    ELSE \* default action of these signals or a handler that cannot resume
         /\ pc' = "killed"
         /\ UNCHANGED <<stats, env, probe, hist>>

\* the tested code executes a faulting instruction
TestedFault(sig) ==
    /\ pc = "tested"
    /\ probe.pc = "idle"
    /\ Deliver(sig)
    /\ call' = CallRec("fault", "-", <<>>, 0, <<sig>>)
    /\ UNCHANGED <<logs, consumed, disp, timer, rec, errno>>

\* the timer runs from setitimer in _eval_arm_signals to setitimer in
\* _eval_disarm_signals: while the tested code runs and at the recovery point
Armed == pc \in { "tested", "recovered" }

\* CPU time passes
TimerTick ==
    /\ Armed
    /\ timer > 1
    /\ timer' = timer - 1
    /\ call' = CallRec("tick", "-", <<>>, 0, <<>>)
    /\ UNCHANGED <<logs, consumed, stats, env, disp, pc, probe, rec, errno, hist>>

\* the single-shot ITIMER_PROF expires: SIGPROF is raised
TimerExpire ==
    /\ Armed
    /\ timer = 1
    /\ timer' = 0
    /\ Deliver(SIGPROF)
    /\ call' = CallRec("fault", "-", <<>>, 0, <<SIGPROF>>)
    /\ UNCHANGED <<logs, consumed, disp, rec, errno>>

-----------------------------------------------------------------------------
(* eval_checkptr( ptr ) and eval_checkconstptr( ptr ), step by step *)

ProbeName(const) == IF const THEN "eval_checkconstptr" ELSE "eval_checkptr"

\* entry: the NULL and (void*)-1 tests, then the two sigaction calls and the
\* reset of _eval_checkptr_data
ProbeBegin(ptr, const) ==
    /\ Running
    /\ hist' = [hist EXCEPT !.probeDisp = disp, !.accessed = FALSE]
    /\ IF ProbeEarly(ptr) # 0
       THEN /\ Room(1)
            /\ stats' = eval_error(stats, 1)
            /\ call' = CallRec(ProbeName(const), "-", <<ptr>>, ProbeEarly(ptr), <<>>)
            /\ UNCHANGED <<disp, probe>>
       ELSE /\ disp' = ProbeInstalled(disp)
            /\ probe' = [pc |-> "armed", ptr |-> ptr, const |-> const,
                         tmp |-> ProbeSaved(disp), stat |-> 0, sig |-> NoSignal]
            /\ call' = CallRec("probing", "-", <<ptr>>, 0, <<>>)
            /\ UNCHANGED stats
    /\ UNCHANGED <<logs, consumed, env, timer, pc, rec, errno>>

\* the access: a fault runs the handler installed for it, which records the
\* signal in _eval_checkptr_data and jumps back behind the access
ProbeAccess ==
    /\ probe.pc = "armed"
    /\ pc \in { "driver", "tested" }
    /\ probe' = [probe EXCEPT
                    !.pc = "accessed",
                    !.stat = IF AccessFault(probe.ptr, probe.const) = NoSignal
                             THEN 0 ELSE 1,
                    !.sig = AccessFault(probe.ptr, probe.const)]
    /\ hist' = [hist EXCEPT !.accessed = TRUE]
    /\ call' = CallRec("probing", "-", <<probe.ptr>>, 1, <<>>)
    /\ UNCHANGED <<logs, consumed, stats, env, disp, timer, pc, rec, errno>>

\* the two restoring sigaction calls, then the verdict
ProbeEnd ==
    /\ probe.pc = "accessed"
    /\ pc \in { "driver", "tested" }
    /\ LET ret == ProbeVerdict(probe.stat, probe.sig)
       IN  /\ Room(IF ret = 0 THEN 0 ELSE 1)
           /\ stats' = eval_error(stats, IF ret = 0 THEN 0 ELSE 1)
           /\ call' = CallRec(ProbeName(probe.const), "-", <<probe.ptr>>, ret, <<>>)
    /\ disp' = ProbeRestored(disp, probe.tmp)
    /\ probe' = ProbeIdle
    /\ UNCHANGED <<logs, consumed, env, timer, pc, rec, errno, hist>>

-----------------------------------------------------------------------------
(* Action dispatch: what the intercepts share *)

Ops == { "exit", "abort", "sleep", "fork", "wait", "waitpid", "kill", "raise",
         "signal", "sigaction", "pause", "alarm", "msgget", "msgsnd", "msgrcv",
         "msgctl", "semget", "semctl", "semop", "shmget", "shmat", "shmdt",
         "shmctl", "mkfifo", "isfifo", "remove", "unlink", "atoi", "fclose",
         "fread", "fwrite", "fseek", "execl" }

\* the values of the action field that eval.c tests for
ACTION_DEFAULT == "DEFAULT"
ACTION_ERROR == "ERROR"
ACTION_SUCCESS == "SUCCESS"
ACTION_LOG == "LOG"
ACTION_BLOCK == "BLOCK"
ACTION_WARN == "WARN"
ACTION_RETRY == "RETRY"
ACTION_CREATE == "CREATE"
ACTION_PROTECT == "PROTECT"
ACTION_INJECT == "INJECT"

\* errno values
NoError == "0"
ENOENT == "ENOENT"
EINVAL == "EINVAL"
EOTHER == "EOTHER"

\* pointers the tested code passes: NULL, a valid one and an invalid one
PtrArgs == { "NULL", "rw", "unmapped" }

\* what a called library function or system call answers: it succeeds, or it
\* fails and sets errno
Real == { [ret |-> 0, errno |-> NoError], [ret |-> -1, errno |-> EOTHER] }

\* errno after the real call r
Errno(r) == IF r.ret = -1 THEN r.errno ELSE errno

\* "%d" of the integers the model passes
Dec(n) ==
    CASE n = -1 -> "-1"
      [] n = 0 -> "0"
      [] n = 1 -> "1"
      [] n = 2 -> "2"
      [] n = 3 -> "3"
      [] n = 4 -> "4"
      [] n = 5 -> "5"
      [] n = 6 -> "6"
      [] n = 7 -> "7"
      [] n = 10 -> "10"
      [] n = 512 -> "512"
      [] OTHER -> "n"

\* "%o" and "%x" of them
Oct(n) ==
    CASE n = 0 -> "0"
      [] n = 512 -> "1000"
      [] n = 4096 -> "10000"
      [] OTHER -> "n"
Hex(n) ==
    CASE n = 0 -> "0"
      [] n = 10 -> "a"
      [] OTHER -> "n"

\* eval_checkptr( ptr ) and eval_checkconstptr( ptr ) as one step: the verdict
eval_check(ptr, const) ==
    IF ProbeEarly(ptr) # 0 THEN ProbeEarly(ptr)
    ELSE ProbeVerdict(IF AccessFault(ptr, const) = NoSignal THEN 0 ELSE 1,
                      AccessFault(ptr, const))
eval_checkptr(ptr) == eval_check(ptr, FALSE)
eval_checkconstptr(ptr) == eval_check(ptr, TRUE)

\* the dispositions after the probes of the pointers ps, made in that order
RECURSIVE Probed(_, _)
Probed(d, ps) ==
    IF ps = <<>> THEN d
    ELSE Probed(IF ProbeEarly(Head(ps)) # 0 THEN d
                ELSE ProbeRestored(ProbeInstalled(d), ProbeSaved(d)),
                Tail(ps))

\* _eval_X_data.status ++
Counted_none(d) == d
Counted(d) == [d EXCEPT !.status = @ + 1]

\* What a call of an intercept does. rec is _eval_X_data when the call ends,
\* nerr and ninfo count its eval_error and eval_info messages, probes lists
\* the pointers it probed, arg the arguments kept for the record of the call,
\* log holds the line it wrote to the data log, at is
\* _eval_X_data when that line was written, side holds what it wrote to the
\* data of other intercepts, real counts the calls of the wrapped function,
\* msgs holds the messages of eval_error in the branch of the action taken,
\* copy names the buffer a message was copied from into the caller's buffer,
\* with the size of the body copied,
\* and esc says how the call ended: Normal for a return, the tag of a
\* siglongjmp, or the signal of a fault.
Out(d, eno, nerr) ==
    [rec |-> d, errno |-> eno, nerr |-> nerr, ninfo |-> 0, probes |-> <<>>,
     log |-> <<>>, at |-> d, esc |-> Normal, side |-> <<>>, arg |-> <<>>,
     real |-> 0, msgs |-> <<>>, copy |-> <<>>]

\* the wrapped function is called in the course of the call
Called(o) == [o EXCEPT !.real = 1]

\* eval_error( "X() called, aborting" ); siglongjmp( jmp, EVAL_CATCH_BLOCKED )
Block(name, d, nerr) ==
    [Out(d, errno, nerr + 1) EXCEPT !.esc = EVAL_CATCH_BLOCKED,
                                    !.msgs = << <<name, "called, aborting">> >>]

\* datalog( line ) with the data as d, then the rest of the call
Log_silent(line, d, o) == o
Log(line, d, o) == [o EXCEPT !.log = <<line>>, !.at = d]

\* the call faults with signal sig, the data being d
Fault(sig, d, nerr) == [Out(d, errno, nerr) EXCEPT !.esc = sig]

\* the number of messages a probed pointer costs: one of the probe, one of
\* the intercept
Bad_never(verdict) == 0
Bad(verdict) == IF verdict # 0 THEN 1 ELSE 0

-----------------------------------------------------------------------------
(* Intercepts: process control *)

\* what sleep() and alarm() answer: the seconds that remained
Remaining(real) == IF real.ret = 0 THEN 0 ELSE 1

\* _eval_X_data after RESET_VAR( X )
ResetVar == [status |-> 0, action |-> ACTION_DEFAULT, ret |-> 0]

_eval_exit_silent(d, status) ==
    [Out([d EXCEPT !.status = status], errno, 0) EXCEPT
        !.esc = EVAL_CATCH_EXIT, !.arg = <<status>>]
_eval_exit(d, status) ==
    LET d1 == [d EXCEPT !.status = status]
    IN  [Out(d1, errno, 0) EXCEPT
            !.ninfo = IF d.action = ACTION_WARN THEN 1 ELSE 0,
            !.esc = EVAL_CATCH_EXIT,
            !.arg = <<status>>]

_eval_abort(d) ==
    LET d1 == [d EXCEPT !.status = 1]
    IN  [Out(d1, errno, 0) EXCEPT
            !.ninfo = IF d.action = ACTION_WARN THEN 1 ELSE 0,
            !.esc = EVAL_CATCH_ABORT]

_eval_sleep(d, seconds, real) ==
    LET d1 == [Counted(d) EXCEPT !.seconds = seconds]
    IN  CASE d.action = ACTION_ERROR -> Out([d1 EXCEPT !.ret = 1], errno, 0)
          [] d.action = ACTION_LOG ->
                Log(<<"sleep", Dec(seconds)>>, d1, Out([d1 EXCEPT !.ret = 0], errno, 0))
          [] d.action = ACTION_SUCCESS -> Out([d1 EXCEPT !.ret = 0], errno, 0)
          [] d.action = ACTION_BLOCK -> Block("sleep", d1, 0)
          [] OTHER -> Called(Out([d1 EXCEPT !.ret = Remaining(real)], errno, 0))

_eval_fork(d, real) ==
    LET d1 == Counted(d)
        d2 == [d1 EXCEPT !.ret = IF @ < 0 THEN 0 ELSE @]
    IN  CASE d.action = ACTION_ERROR -> Out([d1 EXCEPT !.ret = -1], errno, 0)
          [] d.action = ACTION_LOG -> Log(<<"fork">>, d1, Out(d2, errno, 0))
          [] d.action = ACTION_SUCCESS -> Out(d2, errno, 0)
          [] d.action = ACTION_BLOCK -> Block("fork", d1, 0)
          [] OTHER -> Called(Out([d1 EXCEPT !.ret = real.ret], Errno(real), 0))

\* the copy *stat_loc = *_eval_X_data.stat_loc reads the pointer the previous
\* call left in the data
CopyFault(d, err, stat_loc) ==
    IF err = 0 /\ stat_loc # "NULL" /\ d.stat_loc # "NULL"
    THEN ReadFault(d.stat_loc)
    ELSE NoSignal

_eval_wait(d, stat_loc, real) ==
    LET d1 == Counted(d)
        err == IF stat_loc # "NULL" THEN Bad(eval_checkptr(stat_loc)) ELSE 0
        ps == IF stat_loc # "NULL" THEN <<stat_loc>> ELSE <<>>
        d2 == [d1 EXCEPT !.ret = IF @ < 0 THEN 0 ELSE @]
        success == IF CopyFault(d, err, stat_loc) # NoSignal
                   THEN Fault(CopyFault(d, err, stat_loc), d2, 2 * err)
                   ELSE Out([d2 EXCEPT !.stat_loc = stat_loc], errno, 2 * err)
        o == CASE d.action = ACTION_ERROR ->
                    Out([d1 EXCEPT !.ret = -1, !.stat_loc = stat_loc], EINVAL, 2 * err)
               [] d.action = ACTION_LOG -> Log(<<"wait", stat_loc>>, d1, success)
               [] d.action = ACTION_SUCCESS -> success
               [] d.action = ACTION_BLOCK -> Block("wait", d1, 2 * err)
               [] OTHER ->
                    IF err = 0
                    THEN Called(Out([d1 EXCEPT !.ret = real.ret, !.stat_loc = stat_loc],
                             Errno(real), 0))
                    ELSE Out([d1 EXCEPT !.ret = -1, !.stat_loc = stat_loc],
                             errno, 2 * err)
    IN  [o EXCEPT !.probes = ps]

_eval_waitpid(d, pid, stat_loc, options, real) ==
    LET d1 == Counted(d)
        err == IF stat_loc # "NULL" THEN Bad(eval_checkptr(stat_loc)) ELSE 0
        ps == IF stat_loc # "NULL" THEN <<stat_loc>> ELSE <<>>
        end(x) == [x EXCEPT !.pid = pid, !.options = options, !.stat_loc = stat_loc]
        d2 == [d1 EXCEPT !.ret = IF pid <= 0 THEN d.pid ELSE pid]
        success == IF CopyFault(d, err, stat_loc) # NoSignal
                   THEN Fault(CopyFault(d, err, stat_loc), d2, 2 * err)
                   ELSE Out(end(d2), errno, 2 * err)
        o == CASE d.action = ACTION_ERROR ->
                    Out(end([d1 EXCEPT !.ret = -1]), EINVAL, 2 * err)
               [] d.action = ACTION_LOG ->
                    Log(<<"waitpid", Dec(pid), stat_loc, Dec(options)>>, d1, success)
               [] d.action = ACTION_SUCCESS -> success
               [] d.action = ACTION_BLOCK -> Block("waitpid", d1, 2 * err)
               [] OTHER ->
                    IF err = 0
                    THEN Called(Out(end([d1 EXCEPT !.ret = real.ret]), Errno(real), 0))
                    ELSE Out(end([d1 EXCEPT !.ret = -1]), errno, 2 * err)
    IN  [o EXCEPT !.probes = ps]

-----------------------------------------------------------------------------
(* Intercepts: signals *)

\* getpid() and getppid()
SelfPid == 1
ParentPid == 2
Pids == { -1, 0, SelfPid, ParentPid, 3 }

\* a signal the tested code may use, and its handler
SIGUSR1 == "SIGUSR1"
SigArgs == Signals \cup { SIGUSR1 }
Handler == "h0"

\* the tests of ACTION_PROTECT but the one of the parent
Prevented_noparent(pid) ==
    (IF pid = SelfPid THEN 1 ELSE 0) + (IF pid = 0 THEN 1 ELSE 0)
    + (IF pid = -1 THEN 1 ELSE 0)

\* the number of "(kill) prevented ..." messages for pid
Prevented(pid) ==
    (IF pid = SelfPid THEN 1 ELSE 0) + (IF pid = ParentPid THEN 1 ELSE 0)
    + (IF pid = 0 THEN 1 ELSE 0) + (IF pid = -1 THEN 1 ELSE 0)

\* no message is printed
PreventedMsgs_none(pid) == <<>>

\* the messages of these tests, in the order of the tests
PreventedMsgs(pid) ==
    (IF pid = SelfPid THEN << <<"kill", "prevented sending signal to self">> >>
     ELSE <<>>)
    \o (IF pid = ParentPid THEN << <<"kill", "prevented sending signal to parent">> >>
        ELSE <<>>)
    \o (IF pid = 0
        THEN << <<"kill", "prevented sending signal to every process in the process group">> >>
        ELSE <<>>)
    \o (IF pid = -1
        THEN << <<"kill", "prevented sending signal to to every process belonging to process owner">> >>
        ELSE <<>>)

_eval_kill(d, pid, sig, real) ==
    LET d1 == [Counted(d) EXCEPT !.pid = pid, !.sig = sig]
        send == Called(Out([d1 EXCEPT !.ret = real.ret], Errno(real), 0))
    IN  CASE d.action = ACTION_ERROR -> Out([d1 EXCEPT !.ret = -1], EINVAL, 0)
          [] d.action = ACTION_LOG ->
                Log(<<"kill", Dec(pid), sig>>, d1, Out([d1 EXCEPT !.ret = 0], errno, 0))
          [] d.action = ACTION_SUCCESS -> Out([d1 EXCEPT !.ret = 0], errno, 0)
          [] d.action = ACTION_BLOCK -> Block("kill", d1, 0)
          [] d.action = ACTION_PROTECT ->
                IF Prevented(pid) > 0
                THEN [Out([d1 EXCEPT !.ret = 0], errno, Prevented(pid))
                         EXCEPT !.msgs = PreventedMsgs(pid)]
                ELSE send
          [] OTHER -> send

_eval_raise(d, sig, real) ==
    LET d1 == [Counted(d) EXCEPT !.sig = sig]
    IN  CASE d.action = ACTION_ERROR -> Out([d1 EXCEPT !.ret = -1], EINVAL, 0)
          [] d.action = ACTION_LOG ->
                Log(<<"raise", sig>>, d1, Out([d1 EXCEPT !.ret = 0], errno, 0))
          [] d.action = ACTION_SUCCESS -> Out([d1 EXCEPT !.ret = 0], errno, 0)
          [] d.action = ACTION_BLOCK -> Block("raise", d1, 0)
          [] OTHER -> Called(Out([d1 EXCEPT !.ret = real.ret], Errno(real), 0))

\* the switch on signum in _eval_signal and _eval_sigaction
bad_signal_faults(signum) == signum \in Faults
bad_signal(signum) == signum \in { SIGPROF, SIGSEGV, SIGBUS, SIGFPE, SIGILL }

_eval_signal(d, signum, handler, real) ==
    LET d1 == [Counted(d) EXCEPT !.signum = signum, !.handler = handler]
    IN  IF bad_signal(signum)
        THEN Out([d1 EXCEPT !.ret = "SIG_ERR"], EINVAL, 1)
        ELSE CASE d.action = ACTION_ERROR -> Out([d1 EXCEPT !.ret = "SIG_ERR"], errno, 0)
               [] d.action = ACTION_LOG ->
                     Log(<<"signal", signum, handler>>, d1,
                         Out([d1 EXCEPT !.ret = "SIG_DFL"], errno, 0))
               [] d.action = ACTION_SUCCESS -> Out([d1 EXCEPT !.ret = "SIG_DFL"], errno, 0)
               [] d.action = ACTION_BLOCK -> Block("signal", d1, 0)
               [] OTHER ->
                     Called(Out([d1 EXCEPT !.ret = IF real.ret = 0 THEN "SIG_DFL" ELSE "SIG_ERR"],
                         Errno(real), 0))

\* siginfo: act->sa_flags has SA_SIGINFO, when act can be read
_eval_sigaction(d, signum, act, oldact, siginfo, real) ==
    LET e1 == IF act # "NULL" THEN Bad(eval_checkconstptr(act)) ELSE 0
        e2 == IF oldact # "NULL" THEN Bad(eval_checkptr(oldact)) ELSE 0
        err == e1 + e2
        ps == (IF act # "NULL" THEN <<act>> ELSE <<>>)
              \o (IF oldact # "NULL" THEN <<oldact>> ELSE <<>>)
        d1 == [Counted(d) EXCEPT !.signum = signum, !.act = act, !.oldact = oldact]
        o == IF bad_signal(signum)
             THEN Out([d1 EXCEPT !.ret = -1], EINVAL, 2 * err + 1)
             ELSE CASE d.action = ACTION_ERROR ->
                          Out([d1 EXCEPT !.ret = -1], errno, 2 * err)
                    [] d.action = ACTION_LOG ->
                          IF act = "NULL" \/ ReadFault(act) # NoSignal
                          THEN Fault(SIGSEGV, d1, 2 * err)
                          ELSE Log(<<IF siginfo THEN "sigaction" ELSE "signal",
                                     signum, Handler>>, d1,
                                   Out([d1 EXCEPT !.ret = 0], errno, 2 * err))
                    [] d.action = ACTION_SUCCESS ->
                          Out([d1 EXCEPT !.ret = 0], errno, 2 * err)
                    [] d.action = ACTION_BLOCK -> Block("sigaction", d1, 2 * err)
                    [] OTHER ->
                          IF err = 0
                          THEN Called(Out([d1 EXCEPT !.ret = real.ret], Errno(real), 0))
                          ELSE Out([d1 EXCEPT !.ret = -1], errno, 2 * err)
    IN  [o EXCEPT !.probes = ps]

\* pause() answers -1 once a signal was handled
EINTR == "EINTR"

_eval_pause(d) ==
    LET d1 == Counted(d)
    IN  CASE d.action = ACTION_LOG ->
                Log(<<"pause">>, d1, Out([d1 EXCEPT !.ret = -1], errno, 0))
          [] d.action = ACTION_SUCCESS -> Out([d1 EXCEPT !.ret = -1], errno, 0)
          [] d.action = ACTION_BLOCK -> Block("pause", d1, 0)
          [] OTHER -> Called(Out([d1 EXCEPT !.ret = -1], EINTR, 0))

_eval_alarm(d, seconds, real) ==
    LET d1 == [Counted(d) EXCEPT !.ret = d.seconds, !.seconds = seconds]
    IN  CASE d.action = ACTION_ERROR -> Out([d1 EXCEPT !.ret = 1], errno, 0)
          [] d.action = ACTION_LOG ->
                Log(<<"alarm", Dec(seconds)>>, d1, Out([d1 EXCEPT !.ret = 0], errno, 0))
          [] d.action = ACTION_SUCCESS -> Out([d1 EXCEPT !.ret = 0], errno, 0)
          [] d.action = ACTION_BLOCK -> Block("alarm", d1, 0)
          [] OTHER -> Called(Out([d1 EXCEPT !.ret = Remaining(real)], errno, 0))

-----------------------------------------------------------------------------
(* Intercepts: message queues and semaphores *)

IPC_CREAT == 512
Flags == { 0, IPC_CREAT }
HasFlag(flags, f) == (flags \div f) % 2 = 1

\* the IPC keys, sizes and identifiers the tested code passes
Keys == { 10 }
Sizes == { 0, 4 }
Ids == { 5 }

\* X( key, ... ) called for real: a failure, or the identifier of the object
RealId(real) == IF real.ret = 0 THEN 3 ELSE -1

_eval_msgget(d, key, msgflg, real) ==
    LET d1 == [Counted(d) EXCEPT !.key = key, !.msgflg = msgflg]
    IN  CASE d.action = ACTION_RETRY ->
                IF d1.status = 1 THEN Out([d1 EXCEPT !.ret = -1], ENOENT, 0)
                ELSE IF d1.status = 2 THEN Out([d1 EXCEPT !.ret = d.msqid], NoError, 0)
                ELSE [Out(d1, EINVAL, 0) EXCEPT !.side = <<"shmget", "ret", -1>>]
          [] d.action = ACTION_CREATE ->
                IF ~HasFlag(msgflg, IPC_CREAT)
                THEN Out([d1 EXCEPT !.ret = -1], ENOENT, 0)
                ELSE Out([d1 EXCEPT !.ret = d.msqid], errno, 0)
          [] d.action = ACTION_ERROR -> Out([d1 EXCEPT !.ret = -1], EINVAL, 0)
          [] d.action = ACTION_LOG ->
                Log(<<"msgget", Hex(key), Dec(msgflg)>>, d1,
                    Out([d1 EXCEPT !.ret = d.msqid], errno, 0))
          [] d.action = ACTION_SUCCESS -> Out([d1 EXCEPT !.ret = d.msqid], errno, 0)
          [] d.action = ACTION_BLOCK -> Block("msgget", d1, 0)
          [] OTHER -> Called(Out([d1 EXCEPT !.ret = RealId(real)], Errno(real), 0))

\* the copy of the message that ACTION_SUCCESS keeps on the heap
HeapCopy == "heap"

_eval_msgsnd(d, msqid, msgp, msgsz, msgflg, real) ==
    LET err == Bad(eval_checkconstptr(msgp))
        d1 == Counted(d)
        all(x, p) == [x EXCEPT !.msqid = msqid, !.msgp = p,
                               !.msgsz = msgsz, !.msgflg = msgflg]
        capture == Out([all(d1, IF err = 0 THEN HeapCopy ELSE "NULL")
                           EXCEPT !.ret = 0], errno, 2 * err)
        o == CASE d.action = ACTION_INJECT ->
                    Called(Out([d1 EXCEPT !.ret = real.ret], Errno(real), 2 * err))
               [] d.action = ACTION_ERROR ->
                    Out([all(d1, msgp) EXCEPT !.ret = -1], errno, 2 * err)
               [] d.action = ACTION_LOG ->
                    Log(<<"msgsnd", Dec(msqid), msgp, Dec(msgsz), Dec(msgflg)>>,
                        d1, capture)
               [] d.action = ACTION_SUCCESS -> capture
               [] d.action = ACTION_BLOCK -> Block("msgsnd", d1, 2 * err)
               [] OTHER ->
                    IF err = 0
                    THEN Called(Out([all(d1, msgp) EXCEPT !.ret = real.ret], Errno(real), 0))
                    ELSE Out([all(d1, msgp) EXCEPT !.ret = -1], errno, 2 * err)
    IN  [o EXCEPT !.probes = <<msgp>>]

_eval_msgrcv(d, msqid, msgp, msgsz, msgtyp, msgflg, real) ==
    LET err == Bad(eval_checkptr(msgp))
        d1 == Counted(d)
        all(x) == [x EXCEPT !.msqid = msqid, !.msgp = msgp, !.msgsz = msgsz,
                            !.msgtyp = msgtyp, !.msgflg = msgflg]
        capture == Out([all(d1) EXCEPT !.ret = msgsz], errno, 2 * err)
        o == CASE d.action = ACTION_INJECT ->
                    \* memcpy( msgp, _eval_msgrcv_data.msgp, bytes )
                    IF err = 0 /\ (d.msgp = "NULL" \/ ReadFault(d.msgp) # NoSignal)
                    THEN Fault(SIGSEGV,
                               [d1 EXCEPT !.msqid = msqid, !.msgtyp = msgtyp,
                                          !.msgflg = msgflg], 0)
                    ELSE IF err = 0
                    THEN [capture EXCEPT !.copy = <<d.msgp, Min(msgsz, d.msgsz)>>]
                    ELSE capture
               [] d.action = ACTION_ERROR ->
                    Out([all(d1) EXCEPT !.ret = -1], errno, 2 * err)
               [] d.action = ACTION_LOG ->
                    Log(<<"msgrcv", Dec(msqid), msgp, Dec(msgsz), Dec(msgtyp),
                          Dec(msgflg)>>, d1, capture)
               [] d.action = ACTION_SUCCESS -> capture
               [] d.action = ACTION_BLOCK -> Block("msgrcv", d1, 2 * err)
               [] OTHER ->
                    IF err = 0
                    THEN Called(Out([all(d1) EXCEPT
                                 !.ret = IF real.ret = 0 THEN msgsz ELSE -1],
                             Errno(real), 0))
                    ELSE Out([all(d1) EXCEPT !.ret = -1], errno, 2 * err)
    IN  [o EXCEPT !.probes = <<msgp>>]

_eval_msgctl(d, msqid, cmd, buf, real) ==
    LET d1 == [Counted(d) EXCEPT !.msqid = msqid, !.cmd = cmd, !.buf = buf]
    IN  CASE d.action = ACTION_ERROR -> Out([d1 EXCEPT !.ret = -1], EINVAL, 0)
          [] d.action = ACTION_LOG ->
                Log(<<"msgctl", Dec(msqid), cmd, buf>>, d1,
                    Out([d1 EXCEPT !.ret = 0], errno, 0))
          [] d.action = ACTION_SUCCESS -> Out([d1 EXCEPT !.ret = 0], errno, 0)
          [] d.action = ACTION_BLOCK -> Block("msgctl", d1, 0)
          [] OTHER -> Called(Out([d1 EXCEPT !.ret = real.ret], Errno(real), 0))

_eval_semget(d, key, nsems, semflg, real) ==
    LET d1 == [Counted(d) EXCEPT !.key = key, !.nsems = nsems, !.semflg = semflg]
    IN  CASE d.action = ACTION_RETRY ->
                IF d1.status = 1 THEN Out([d1 EXCEPT !.ret = -1], ENOENT, 0)
                ELSE IF d1.status = 2 THEN Out([d1 EXCEPT !.ret = d.semid], NoError, 0)
                ELSE Out([d1 EXCEPT !.ret = -1], EINVAL, 0)
          [] d.action = ACTION_CREATE ->
                IF nsems = 0 /\ HasFlag(semflg, IPC_CREAT)
                THEN Out([d1 EXCEPT !.ret = -1], EINVAL, 0)
                ELSE Out([d1 EXCEPT !.ret = d.semid], errno, 0)
          [] d.action = ACTION_ERROR -> Out([d1 EXCEPT !.ret = -1], EINVAL, 0)
          [] d.action = ACTION_LOG ->
                Log(<<"semget", Hex(key), Dec(nsems), Oct(semflg)>>, d1,
                    Out([d1 EXCEPT !.ret = d.semid], errno, 0))
          [] d.action = ACTION_SUCCESS -> Out([d1 EXCEPT !.ret = d.semid], errno, 0)
          [] d.action = ACTION_BLOCK -> Block("semget", d1, 0)
          [] OTHER -> Called(Out([d1 EXCEPT !.ret = RealId(real)], Errno(real), 0))

\* the commands of semctl that take a fourth argument
SemunCmds == { "SETVAL", "IPC_STAT", "IPC_SET", "GETALL", "SETALL" }
Cmds == { "SETVAL", "IPC_RMID" }

_eval_semctl(d, semid, semnum, cmd, arg, real) ==
    LET d0 == [Counted(d) EXCEPT !.semid = semid, !.semnum = semnum, !.cmd = cmd]
        d1 == IF cmd \in SemunCmds THEN [d0 EXCEPT !.arg = arg] ELSE d0
    IN  CASE d.action = ACTION_ERROR -> Out([d1 EXCEPT !.ret = -1], EINVAL, 0)
          [] d.action = ACTION_LOG ->
                Log(<<"semctl", Dec(semid), Dec(semnum), cmd>>, d1,
                    Out([d1 EXCEPT !.ret = 0], errno, 0))
          [] d.action = ACTION_SUCCESS -> Out([d1 EXCEPT !.ret = 0], errno, 0)
          [] d.action = ACTION_BLOCK -> Block("semctl", d1, 0)
          [] OTHER -> Called(Out([d1 EXCEPT !.ret = real.ret], Errno(real), 0))

\* the line of one operation of the array sops
SemopLine(semid) == <<"semop", Dec(semid), "0", "-1", "0">>

_eval_semop(d, semid, sops, nsops, real) ==
    LET err == Bad(eval_checkptr(sops))
        d1 == [Counted(d) EXCEPT !.sops = sops, !.nsops = nsops]
        success == Out([d1 EXCEPT !.ret = 0], errno, 2 * err)
        o == CASE d.action = ACTION_ERROR ->
                    Out([d1 EXCEPT !.ret = -1], EINVAL, 2 * err)
               [] d.action = ACTION_LOG ->
                    IF err = 0
                    THEN [success EXCEPT
                             !.log = [i \in 1..nsops |-> SemopLine(semid)],
                             !.at = d1]
                    ELSE success
               [] d.action = ACTION_SUCCESS -> success
               [] d.action = ACTION_BLOCK -> Block("semop", d1, 2 * err)
               [] OTHER ->
                    IF err = 0
                    THEN Called(Out([d1 EXCEPT !.ret = real.ret], Errno(real), 0))
                    ELSE Out([d1 EXCEPT !.ret = -1], EINVAL, 2 * err)
    IN  [o EXCEPT !.probes = <<sops>>]

-----------------------------------------------------------------------------
(* Intercepts: shared memory *)

_eval_shmget(d, key, size, shmflg, real) ==
    LET d1 == [Counted(d) EXCEPT !.key = key, !.size = size, !.shmflg = shmflg]
        create == IF size = 0 /\ HasFlag(shmflg, IPC_CREAT)
                  THEN Out([d1 EXCEPT !.ret = -1], errno, 0)
                  ELSE Out([d1 EXCEPT !.ret = d.shmid], errno, 0)
    IN  CASE d.action = ACTION_RETRY ->
                IF d1.status = 1 THEN Out([d1 EXCEPT !.ret = -1], ENOENT, 0)
                ELSE IF d1.status = 2 THEN create
                ELSE Out([d1 EXCEPT !.ret = -1], errno, 0)
          [] d.action = ACTION_CREATE -> create
          [] d.action = ACTION_ERROR -> Out([d1 EXCEPT !.ret = -1], EINVAL, 0)
          [] d.action = ACTION_LOG ->
                Log(<<"shmget", Hex(key), Dec(size), Dec(shmflg)>>, d1,
                    Out([d1 EXCEPT !.ret = d.shmid], errno, 0))
          [] d.action = ACTION_SUCCESS -> Out([d1 EXCEPT !.ret = d.shmid], errno, 0)
          [] d.action = ACTION_BLOCK -> Block("shmget", d1, 0)
          [] OTHER ->
                Called(Out([d1 EXCEPT !.shmid = RealId(real), !.ret = RealId(real)],
                    Errno(real), 0))

_eval_shmat(d, shmid, shmaddr, shmflg, real) ==
    LET d1 == [Counted(d) EXCEPT !.shmid = shmid, !.shmaddr = shmaddr,
                                 !.shmflg = shmflg]
    IN  CASE d.action = ACTION_ERROR -> Out([d1 EXCEPT !.ret = "MINUS1"], EINVAL, 0)
          [] d.action = ACTION_LOG ->
                Log(<<"shmat", Dec(shmid), shmaddr, Dec(shmflg)>>, d1,
                    Out([d1 EXCEPT !.ret = d1.shmaddr], errno, 0))
          [] d.action = ACTION_SUCCESS -> Out([d1 EXCEPT !.ret = d1.shmaddr], errno, 0)
          [] d.action = ACTION_BLOCK -> Block("shmat", d1, 0)
          [] OTHER ->
                Called(Out([d1 EXCEPT !.ret = IF real.ret = 0 THEN "rw" ELSE "MINUS1"],
                    Errno(real), 0))

_eval_shmdt(d, shmaddr, real) ==
    LET d1 == [Counted(d) EXCEPT !.shmaddr = shmaddr]
    IN  CASE d.action = ACTION_ERROR -> Out([d1 EXCEPT !.ret = -1], EINVAL, 0)
          [] d.action = ACTION_LOG ->
                Log(<<"shmdt", shmaddr>>, d1, Out([d1 EXCEPT !.ret = 0], errno, 0))
          [] d.action = ACTION_SUCCESS -> Out([d1 EXCEPT !.ret = 0], errno, 0)
          [] d.action = ACTION_BLOCK -> Block("shmdt", d1, 0)
          [] OTHER -> Called(Out([d1 EXCEPT !.ret = real.ret], Errno(real), 0))

_eval_shmctl(d, shmid, cmd, buf, real) ==
    LET d1 == [Counted(d) EXCEPT !.shmid = shmid, !.cmd = cmd, !.buf = buf]
    IN  CASE d.action = ACTION_ERROR -> Out([d1 EXCEPT !.ret = -1], EINVAL, 0)
          [] d.action = ACTION_LOG ->
                Log(<<"shmctl", Dec(shmid), cmd, buf>>, d1,
                    Out([d1 EXCEPT !.ret = 0], errno, 0))
          [] d.action = ACTION_SUCCESS -> Out([d1 EXCEPT !.ret = 0], errno, 0)
          [] d.action = ACTION_BLOCK -> Block("shmctl", d1, 0)
          [] OTHER -> Called(Out([d1 EXCEPT !.ret = real.ret], Errno(real), 0))

-----------------------------------------------------------------------------
(* Intercepts: FIFOs, files and exec *)

\* the string a valid path points to, and the empty string
PathText == "/tmp/f"
NoText == ""

\* the called function is handed a pointer it cannot use: it faults or fails
Wild(d, real, nerr) ==
    IF real.ret = 0 THEN Called(Fault(SIGSEGV, d, nerr))
    ELSE Called(Out([d EXCEPT !.ret = -1], real.errno, nerr))

\* the test of path and the copy to _eval_X_data.path that follows it
PathErr(path) == Bad(eval_checkconstptr(path))
PathCopy(d, path) ==
    [d EXCEPT !.path = IF PathErr(path) # 0 THEN NoText ELSE PathText]

_eval_mkfifo(d, path, mode, real) ==
    LET err == PathErr(path)
        d1 == PathCopy([Counted(d) EXCEPT !.mode = mode], path)
        o == CASE d.action = ACTION_ERROR ->
                    Out([d1 EXCEPT !.ret = -1], EINVAL, 2 * err)
               [] d.action = ACTION_LOG ->
                    Log(<<"mkfifo", d1.path, Oct(mode)>>, d1,
                        Out([d1 EXCEPT !.ret = 0], errno, 2 * err))
               [] d.action = ACTION_SUCCESS ->
                    Out([d1 EXCEPT !.ret = 0], errno, 2 * err)
               [] d.action = ACTION_BLOCK -> Block("mkfifo", d1, 2 * err)
               [] OTHER ->
                    IF err = 0
                    THEN Called(Out([d1 EXCEPT !.ret = real.ret], Errno(real), 0))
                    ELSE Out([d1 EXCEPT !.ret = -1], EINVAL, 2 * err)
    IN  [o EXCEPT !.probes = <<path>>]

\* S_ISFIFO( mode ) of the modes the model passes
S_IFIFO == 4096
Modes == { 0, S_IFIFO }
S_ISFIFO(mode) == IF (mode \div S_IFIFO) % 16 = 1 THEN 1 ELSE 0

_eval_isfifo(d, mode) ==
    LET d1 == [Counted(d) EXCEPT !.mode = mode]
    IN  CASE d.action = ACTION_ERROR -> Out([d1 EXCEPT !.ret = 0], errno, 0)
          [] d.action = ACTION_LOG ->
                Log(<<"S_ISFIFO", Oct(mode)>>, d1, Out([d1 EXCEPT !.ret = 1], errno, 0))
          [] d.action = ACTION_SUCCESS -> Out([d1 EXCEPT !.ret = 1], errno, 0)
          [] d.action = ACTION_BLOCK -> Block("S_ISFIFO", d1, 0)
          [] OTHER -> Called(Out([d1 EXCEPT !.ret = S_ISFIFO(mode)], errno, 0))

\* _eval_remove and _eval_unlink: both write "unlink" to the data log
Unlink(name, d, path, real) ==
    LET err == PathErr(path)
        d1 == [PathCopy(Counted(d), path) EXCEPT !.ret = 0]
        o == CASE d.action = ACTION_ERROR ->
                    Out([d1 EXCEPT !.ret = -1], EINVAL, 2 * err)
               [] d.action = ACTION_LOG ->
                    Log(<<"unlink", d1.path>>, d1, Out(d1, errno, 2 * err))
               [] d.action = ACTION_SUCCESS -> Out(d1, errno, 2 * err)
               [] d.action = ACTION_BLOCK -> Block(name, d1, 2 * err)
               [] OTHER ->
                    IF err = 0
                    THEN Called(Out([d1 EXCEPT !.ret = real.ret], Errno(real), 0))
                    ELSE Out([d1 EXCEPT !.ret = -1], EINVAL, 2 * err)
    IN  [o EXCEPT !.probes = <<path>>]
_eval_remove(d, path, real) == Unlink("remove", d, path, real)
_eval_unlink(d, path, real) == Unlink("unlink", d, path, real)

INT32_MIN == -2147483647 - 1

\* the test of nptr is negated: a valid nptr is refused, and an invalid one
\* is read by strncpy
_eval_atoi(d, nptr) ==
    LET d1 == [Counted(d) EXCEPT !.ret = -1]
        d2 == [d1 EXCEPT !.nptr = NoText]
        o == IF eval_checkconstptr(nptr) # 0
             THEN Fault(SIGSEGV, d1, 1)
             ELSE CASE d.action = ACTION_ERROR ->
                          Out([d2 EXCEPT !.ret = INT32_MIN], errno, 1)
                    [] d.action = ACTION_LOG ->
                          Log(<<"atoi", d2.nptr>>, d2, Out(d2, errno, 1))
                    [] d.action = ACTION_SUCCESS -> Out(d2, errno, 1)
                    [] d.action = ACTION_BLOCK -> Block("atoi", d2, 1)
                    [] OTHER -> Out([d2 EXCEPT !.ret = -1], errno, 1)
    IN  [o EXCEPT !.probes = <<nptr>>]

\* the test of stream is negated: err counts the valid streams
_eval_fclose(d, stream, real) ==
    LET d1 == [Counted(d) EXCEPT !.ret = -1, !.stream = stream]
        valid == eval_checkptr(stream) = 0
        nerr == 1
        o == CASE d.action = ACTION_ERROR ->
                    Out([d1 EXCEPT !.ret = -1], EINVAL, nerr)
               [] d.action = ACTION_LOG ->
                    Log(<<"fclose", stream>>, d1,
                        Out([d1 EXCEPT !.ret = 0], errno, nerr))
               [] d.action = ACTION_SUCCESS ->
                    Out([d1 EXCEPT !.ret = 0], errno, nerr)
               [] d.action = ACTION_BLOCK -> Block("fclose", d1, nerr)
               [] OTHER ->
                    IF valid
                    THEN Out([d1 EXCEPT !.ret = -1], EINVAL, nerr)
                    ELSE Wild(d1, real, nerr)
    IN  [o EXCEPT !.probes = <<stream>>]

\* streams: one at the address of the valid buffer, one elsewhere
Streams == { "rw", "file" }

\* _eval_fread and _eval_fwrite: the tests of ptr, stream, size and nmemb
IoErr(ptr, size, nmemb, stream) ==
    (IF ptr = stream THEN 1
     ELSE Bad(eval_checkptr(ptr)) + Bad(eval_checkptr(stream)))
    + (IF size * nmemb <= 0 THEN 1 ELSE 0)
IoMsg(ptr, size, nmemb, stream) ==
    (IF ptr = stream THEN 1
     ELSE 2 * Bad(eval_checkptr(ptr)) + 2 * Bad(eval_checkptr(stream)))
    + (IF size * nmemb <= 0 THEN 1 ELSE 0)

Io(name, d, ptr, size, nmemb, stream, real) ==
    LET err == IoErr(ptr, size, nmemb, stream)
        nerr == IoMsg(ptr, size, nmemb, stream)
        d1 == [Counted(d) EXCEPT !.ptr = ptr, !.size = size, !.nmemb = nmemb,
                                 !.stream = stream, !.ret = 0]
        o == CASE d.action = ACTION_ERROR -> Out(d1, EINVAL, nerr)
               [] d.action = ACTION_LOG ->
                    Log(<<name, ptr, Dec(size), Dec(nmemb), stream>>, d1,
                        Out([d1 EXCEPT !.ret = nmemb], errno, nerr))
               [] d.action = ACTION_SUCCESS ->
                    Out([d1 EXCEPT !.ret = nmemb], errno, nerr)
               [] d.action = ACTION_BLOCK -> Block(name, d1, nerr)
               [] OTHER ->
                    IF err = 0
                    THEN Called(Out([d1 EXCEPT !.ret = IF real.ret = 0 THEN nmemb ELSE 0],
                             Errno(real), 0))
                    ELSE Out(d1, EINVAL, nerr)
    IN  [o EXCEPT !.probes = IF ptr = stream THEN <<>> ELSE <<ptr, stream>>]
_eval_fread(d, ptr, size, nmemb, stream, real) ==
    Io("fread", d, ptr, size, nmemb, stream, real)
_eval_fwrite(d, ptr, size, nmemb, stream, real) ==
    Io("fwrite", d, ptr, size, nmemb, stream, real)

Whences == { "SEEK_SET", "SEEK_CUR", "SEEK_END" }

_eval_fseek(d, stream, offset, whence, real) ==
    LET d1 == [Counted(d) EXCEPT !.stream = stream, !.offset = offset,
                                 !.whence = whence, !.ret = -1]
        e1 == Bad(eval_checkptr(stream))
        e2 == IF whence \in Whences THEN 0 ELSE 1
        nerr == 2 * e1 + e2
        o == CASE d.action = ACTION_ERROR -> Out(d1, EINVAL, nerr)
               [] d.action = ACTION_LOG ->
                    Log(<<"fseek", stream, Dec(offset), whence>>, d1,
                        Out([d1 EXCEPT !.ret = 0], errno, nerr))
               [] d.action = ACTION_SUCCESS ->
                    Out([d1 EXCEPT !.ret = 0], errno, nerr)
               [] d.action = ACTION_BLOCK -> Block("fseek", d1, nerr)
               [] OTHER ->
                    IF e1 + e2 = 0
                    THEN Called(Out([d1 EXCEPT !.ret = real.ret], Errno(real), 0))
                    ELSE Out(d1, EINVAL, nerr)
    IN  [o EXCEPT !.probes = <<stream>>]

\* execv() answers only if it fails; otherwise the process runs another program
Replaced == "replaced"

_eval_execl(d, path, real) ==
    LET err == PathErr(path)
        d1 == PathCopy(Counted(d), path)
        o == CASE d.action = ACTION_LOG ->
                    Log(<<"execl", d1.path>>, d1,
                        Out([d1 EXCEPT !.ret = -1], errno, 2 * err))
               [] d.action = ACTION_ERROR ->
                    Out([d1 EXCEPT !.ret = -1], errno, 2 * err)
               [] d.action = ACTION_BLOCK ->
                    Block("execl", [d1 EXCEPT !.ret = -1], 2 * err)
               [] OTHER ->
                    IF err # 0 THEN Out([d1 EXCEPT !.ret = -1], errno, 2 * err)
                    ELSE IF real.ret = 0
                    THEN Called([Out(d1, errno, 0) EXCEPT !.esc = Replaced])
                    ELSE Called(Out([d1 EXCEPT !.ret = -1], real.errno, 0))
    IN  [o EXCEPT !.probes = <<path>>]

-----------------------------------------------------------------------------
(* The intercepts' data, eval_reset, and a call of an intercept *)

\* the fields of _eval_X_data besides status, action and ret, zeroed
Fields(op) ==
    CASE op \in { "sleep", "alarm" } -> [seconds |-> 0]
      [] op = "wait" -> [stat_loc |-> "NULL"]
      [] op = "waitpid" -> [pid |-> 0, options |-> 0, stat_loc |-> "NULL"]
      [] op = "kill" -> [pid |-> 0, sig |-> "0"]
      [] op = "raise" -> [sig |-> "0"]
      [] op = "signal" -> [signum |-> "0", handler |-> "NULL"]
      [] op = "sigaction" -> [signum |-> "0", act |-> "NULL", oldact |-> "NULL"]
      [] op = "msgget" -> [key |-> 0, msgflg |-> 0, msqid |-> 0]
      [] op = "msgsnd" -> [msqid |-> 0, msgp |-> "NULL", msgsz |-> 0, msgflg |-> 0]
      [] op = "msgrcv" -> [msqid |-> 0, msgp |-> "NULL", msgsz |-> 0,
                           msgtyp |-> 0, msgflg |-> 0]
      [] op = "msgctl" -> [msqid |-> 0, cmd |-> "0", buf |-> "NULL"]
      [] op = "semget" -> [key |-> 0, nsems |-> 0, semflg |-> 0, semid |-> 0]
      [] op = "semctl" -> [semid |-> 0, semnum |-> 0, cmd |-> "0", arg |-> 0]
      [] op = "semop" -> [sops |-> "NULL", nsops |-> 0]
      [] op = "shmget" -> [key |-> 0, size |-> 0, shmflg |-> 0, shmid |-> 0]
      [] op = "shmat" -> [shmid |-> 0, shmaddr |-> "NULL", shmflg |-> 0]
      [] op = "shmdt" -> [shmaddr |-> "NULL"]
      [] op = "shmctl" -> [shmid |-> 0, cmd |-> "0", buf |-> "NULL"]
      [] op = "mkfifo" -> [mode |-> 0, path |-> NoText]
      [] op = "isfifo" -> [mode |-> 0]
      [] op \in { "remove", "unlink", "execl" } -> [path |-> NoText]
      [] op = "atoi" -> [nptr |-> NoText]
      [] op = "fclose" -> [stream |-> "NULL"]
      [] op \in { "fread", "fwrite" } ->
            [ptr |-> "NULL", size |-> 0, nmemb |-> 0, stream |-> "NULL"]
      [] op = "fseek" -> [stream |-> "NULL", offset |-> 0, whence |-> "0"]
      [] OTHER -> [status |-> 0]

\* RESET_VAR( X ): the data of X zeroed; a pointer result is NULL
RESET_VAR(op) ==
    (IF op \in { "signal", "shmat" } THEN [ResetVar EXCEPT !.ret = "NULL"]
     ELSE ResetVar) @@ Fields(op)

\* the default timeout, in the time unit of Timeouts
EVAL_TIMEOUT == 1

\* eval_reset_vars()
eval_reset_vars == [op \in Ops |-> RESET_VAR(op)]

\* the action eval_reset() leaves in _eval_X_data
ResetAction_default(op) == ACTION_DEFAULT
ResetAction(op) ==
    IF op \in { "pause", "execl", "wait", "waitpid", "raise" } THEN ACTION_BLOCK
    ELSE IF op = "kill" THEN ACTION_PROTECT
    ELSE ACTION_DEFAULT

\* eval_reset(): eval_reset_vars(), then the actions it sets
eval_reset == [op \in Ops |-> [RESET_VAR(op) EXCEPT !.action = ResetAction(op)]]

\* the model follows one intercept at a time: between two calls of eval_reset
\* one intercept is configured and called, and the lines of the data log are
\* this intercept's; msgsnd and msgrcv are also followed together ("msg")
LogNames(op) ==
    CASE op = "isfifo" -> { "S_ISFIFO" }
      [] op = "remove" -> { "unlink" }
      [] op = "sigaction" -> { "sigaction", "signal" }
      [] OTHER -> { op }
Focus(op) ==
    /\ hist.focus \in { "none", op } \cup
                      (IF op \in { "msgsnd", "msgrcv" } THEN { "msg" } ELSE {})
    /\ \A i \in 0..(LOGSIZE - 1) :
          IF logs["data"].buffer[i] = <<>> THEN TRUE
          ELSE logs["data"].buffer[i][1] \in LogNames(op)

\* datalog( line ) for each of lines, there being room for all of them
RECURSIVE Datalog(_, _)
Datalog(log, lines) ==
    IF lines = <<>> THEN log
    ELSE Datalog([newline(log) EXCEPT !.buffer[log.end] = vsnprintf(Head(lines), LOGLINE)],
                 Tail(lines))

\* what an intercept wrote to the data of another one
Side(r, side) ==
    IF side = <<>> THEN r
    ELSE [r EXCEPT ![side[1]] = [@ EXCEPT !.ret = side[3]]]

\* the tested code or the driver calls the intercept op, which does o
Intercept(op, o) ==
    /\ Running
    /\ Focus(op)
    /\ rec[op].status < MaxCalls
    /\ LET data == logs["data"]
           room == LOGSIZE - data.end
           full == Len(o.log) > room
           esc == IF full THEN EVAL_CATCH_LOG_OVERFLOW ELSE o.esc
           d == IF full THEN o.at ELSE o.rec
           dsp == Probed(disp, o.probes)
           caught == esc \in Signals /\ dsp[esc] = CaptureHandler
           nerr == o.nerr + (IF full THEN 2 ELSE 0) + (IF caught THEN 1 ELSE 0)
       IN  /\ Room(nerr)
           /\ stats.info + o.ninfo <= MaxStat
           /\ stats' = eval_info(eval_error(stats, nerr), o.ninfo)
           /\ rec' = IF full THEN [rec EXCEPT ![op] = d]
                     ELSE Side([rec EXCEPT ![op] = d], o.side)
           /\ errno' = IF full THEN errno ELSE o.errno
           /\ logs' = [logs EXCEPT !["data"] =
                          Datalog(@, IF full THEN SubSeq(o.log, 1, room) ELSE o.log)]
           /\ disp' = dsp
           /\ call' = CallRec(op, "data", o.arg, d.ret, <<esc>>)
           /\ CASE esc = Normal -> pc' = pc /\ env' = env
                [] esc = EVAL_CATCH_LOG_OVERFLOW ->
                      IF env.catch THEN Jump(esc) ELSE pc' = "exited" /\ env' = env
                [] esc \in Signals ->
                      IF caught
                      THEN /\ pc' = "recovered"
                           /\ env' = [env EXCEPT !.signal = esc,
                                                 !.stat = EVAL_CATCH_SIGNAL]
                      ELSE pc' = "killed" /\ env' = env
                [] esc = Replaced -> pc' = "replaced" /\ env' = env
                [] OTHER -> Jump(esc)
    /\ hist' = [hist EXCEPT !.focus = IF hist.focus = "msg" THEN "msg" ELSE op,
                            !.real = IF Len(o.log) > LOGSIZE - logs["data"].end
                                     THEN 0 ELSE o.real,
                            !.msgs = IF Len(o.log) > LOGSIZE - logs["data"].end
                                     THEN <<>> ELSE o.msgs,
                            !.copy = IF Len(o.log) > LOGSIZE - logs["data"].end
                                     THEN <<>> ELSE o.copy,
                            !.retried = IF rec[op].action = ACTION_RETRY
                                        THEN @ + 1 ELSE @]
    /\ UNCHANGED <<consumed, timer, probe>>

\* the driver sets _eval_X_data.action and, if cfg, the values the intercept
\* is to answer with
Configured(op, d) ==
    CASE op = "msgget" -> [d EXCEPT !.msqid = 5]
      [] op = "semget" -> [d EXCEPT !.semid = 5]
      [] op = "shmget" -> [d EXCEPT !.shmid = 5]
      [] op = "fork" -> [d EXCEPT !.ret = -1]
      [] op = "waitpid" -> [d EXCEPT !.pid = 5]
      [] op = "msgrcv" -> [d EXCEPT !.msgp = HeapCopy, !.msgsz = 4]
      [] op = "shmat" -> [d EXCEPT !.shmaddr = "rw"]
      [] OTHER -> d

Actions == { ACTION_DEFAULT, ACTION_ERROR, ACTION_SUCCESS, ACTION_LOG, ACTION_BLOCK,
             ACTION_WARN, ACTION_RETRY, ACTION_CREATE, ACTION_PROTECT, ACTION_INJECT }

Configure(op, action, cfg) ==
    /\ pc = "driver"
    /\ probe.pc = "idle"
    /\ Focus(op)
    /\ action \in Actions
    /\ rec' = [rec EXCEPT ![op] =
                  [(IF cfg THEN Configured(op, @) ELSE @) EXCEPT !.action = action]]
    /\ hist' = [hist EXCEPT !.focus = IF hist.focus = "msg" THEN "msg" ELSE op]
    /\ call' = CallRec("configure", "-", <<>>, 0, <<op>>)
    /\ UNCHANGED <<logs, consumed, stats, env, disp, timer, pc, probe, errno>>

\* eval_reset()
EvalReset ==
    /\ pc = "driver"
    /\ probe.pc = "idle"
    /\ rec' = eval_reset
    /\ env' = [env EXCEPT !.timeout = EVAL_TIMEOUT]
    /\ stats' = eval_reset_stats(stats)
    /\ hist' = [hist EXCEPT !.focus = "none", !.retried = 0]
    /\ call' = CallRec("eval_reset", "-", <<>>, 0, <<>>)
    /\ UNCHANGED <<logs, consumed, disp, timer, pc, probe, errno>>

\* strsignal( sig ): the description of a signal, NULL for a number that is
\* not one
strsignal(sig) ==
    CASE sig = SIGSEGV -> "Segmentation fault"
      [] sig = SIGBUS -> "Bus error"
      [] sig = SIGFPE -> "Floating point exception"
      [] sig = SIGILL -> "Illegal instruction"
      [] sig = SIGPROF -> "Profiling timer expired"
      [] OTHER -> "NULL"

\* the text eval_termination prints to _eval_term_str, given _eval_env.stat,
\* _eval_exit_data.status and _eval_env.signal
eval_termination_nostatus(stat, status, signal) == <<"exit(", "0", ") called">>
eval_termination(stat, status, signal) ==
    CASE stat = Normal -> <<"code returned normally">>
      [] stat = EVAL_CATCH_EXIT -> <<"exit(", Dec(status), ") called">>
      [] stat = EVAL_CATCH_ABORT -> <<"abort() called">>
      [] stat = EVAL_CATCH_BLOCKED -> <<"blocked function called">>
      [] stat = EVAL_CATCH_SIGNAL ->
            IF strsignal(signal) # "NULL"
            THEN <<"signal ", strsignal(signal), " caught">>
            ELSE <<"Unknown signal ", signal, " caught">>
      [] stat = EVAL_CATCH_LOG_OVERFLOW -> <<"log buffer full">>
      [] OTHER -> <<"abnormal termination">>

\* the driver calls eval_termination()
EvalTermination ==
    /\ pc = "driver"
    /\ probe.pc = "idle"
    /\ call' = CallRec("eval_termination", "-", <<>>,
                       eval_termination(env.stat, rec["exit"].status, env.signal), <<>>)
    /\ UNCHANGED <<logs, consumed, stats, env, disp, timer, pc, probe, rec, errno, hist>>

-----------------------------------------------------------------------------
(* Specifications *)

\* eval.c's globals once the logs are initialised; _eval_env is zeroed
EnvInit == [catch |-> FALSE, stat |-> Normal, timeout |-> 0, signal |-> "0",
            sigactions |-> [i \in 1..5 |-> "SIG_DFL"]]

InitCommon ==
    /\ logs = [l \in LogIds |-> FreshLog]
    /\ consumed = [l \in LogIds |-> <<>>]
    /\ stats = [error |-> 0, info |-> 0]
    /\ env = EnvInit
    /\ timer = 0
    /\ pc = "driver"
    /\ probe = ProbeIdle
    /\ rec = eval_reset_vars
    /\ errno = "0"
    /\ call = NoCall

DefaultDisp == [s \in Signals |-> "SIG_DFL"]

HistInit(d) == [armDisp |-> d, probeDisp |-> d, disp0 |-> d,
                accessed |-> FALSE, interrupted |-> FALSE, focus |-> "unset",
                ran |-> FALSE, real |-> 0, msgs |-> <<>>, copy |-> <<>>,
                retried |-> 0]

\* the logs, used by the driver and by the tested code in a capture cycle
InitLog ==
    /\ InitCommon
    /\ disp = DefaultDisp
    /\ hist = HistInit(disp)

NextLog ==
    \/ \E l \in LogIds : Initlog(l)
    \/ \E l \in LogIds, t \in Texts : EvalLog(l, t)
    \/ \E l \in LogIds, m \in Needles : Rmheadmsg(l, m)
    \/ \E l \in LogIds : Loghead(l)
    \/ ResetStats
    \/ CatchBegin
    \/ CatchEnd
    \/ Recover

SpecLog == InitLog /\ [][NextLog]_vars

\* the capture cycle and the probe, from any dispositions of the five signals
InitSig ==
    /\ InitCommon
    /\ disp \in [Signals -> UserDisps]
    /\ hist = HistInit(disp)

NextSig ==
    \/ \E t \in Timeouts : SetTimeout(t)
    \/ CatchBegin
    \/ CatchEnd
    \/ Recover
    \/ \E p \in Ptrs, c \in BOOLEAN : ProbeBegin(p, c)
    \/ ProbeAccess
    \/ ProbeEnd
    \/ \E s \in Faults : TestedFault(s)
    \/ TimerTick
    \/ TimerExpire
    \/ ResetStats

SpecSig == InitSig /\ [][NextSig]_vars

\* the intercepts, called by the driver or by the tested code in a capture cycle
InitOps ==
    /\ InitCommon
    /\ disp = DefaultDisp
    /\ hist = HistInit(disp)

\* the arguments of the calls: the last element is what the wrapped function
\* would answer, for the intercepts that have one
Args(op) ==
    CASE op = "exit" -> { <<st>> : st \in 0..2 }
      [] op \in { "abort", "pause" } -> { <<>> }
      [] op = "sleep" -> { <<1, r>> : r \in Real }
      [] op \in { "fork" } -> { <<r>> : r \in Real }
      [] op \in { "wait", "execl", "remove", "unlink", "fclose" } ->
            { <<p, r>> : p \in PtrArgs, r \in Real }
      [] op = "waitpid" -> { <<pid, p, 0, r>> : pid \in { -1, 3 }, p \in PtrArgs, r \in Real }
      [] op = "kill" -> { <<pid, SIGUSR1, r>> : pid \in Pids, r \in Real }
      [] op = "raise" -> { <<SIGUSR1, r>> : r \in Real }
      [] op = "signal" ->
            { <<sig, Handler, r>> : sig \in { SIGUSR1, SIGSEGV, SIGPROF }, r \in Real }
      [] op = "sigaction" ->
            { <<sig, act, old, si, r>> : sig \in { SIGUSR1, SIGBUS }, act \in PtrArgs,
                                         old \in { "NULL", "rw" }, si \in BOOLEAN,
                                         r \in Real }
      [] op = "alarm" -> { <<2, r>> : r \in Real }
      [] op = "msgget" -> { <<10, f, r>> : f \in Flags, r \in Real }
      [] op = "msgsnd" -> { <<5, p, 4, 0, r>> : p \in PtrArgs, r \in Real }
      [] op = "msgrcv" -> { <<5, p, z, 1, 0, r>> : p \in PtrArgs, z \in Sizes, r \in Real }
      [] op \in { "msgctl", "shmctl" } -> { <<5, c, "NULL", r>> : c \in Cmds, r \in Real }
      [] op = "semget" -> { <<10, n, f, r>> : n \in { 0, 1 }, f \in Flags, r \in Real }
      [] op = "semctl" -> { <<5, 0, c, 1, r>> : c \in Cmds, r \in Real }
      [] op = "semop" -> { <<5, p, n, r>> : p \in PtrArgs, n \in { 1, 2 }, r \in Real }
      [] op = "shmget" -> { <<10, z, f, r>> : z \in Sizes, f \in Flags, r \in Real }
      [] op = "shmat" -> { <<5, p, 0, r>> : p \in { "NULL", "rw" }, r \in Real }
      [] op = "shmdt" -> { <<p, r>> : p \in { "NULL", "rw" }, r \in Real }
      [] op = "mkfifo" -> { <<p, S_IFIFO, r>> : p \in PtrArgs, r \in Real }
      [] op = "isfifo" -> { <<m>> : m \in Modes }
      [] op = "atoi" -> { <<p>> : p \in PtrArgs }
      [] op = "fread" ->
            { <<p, z, 1, st, r>> : p \in PtrArgs, z \in Sizes, st \in Streams, r \in Real }
      [] op = "fwrite" ->
            { <<p, z, 1, st, r>> : p \in { "rw", "ro" }, z \in Sizes, st \in Streams,
                                   r \in Real }
      [] op = "fseek" ->
            { <<st, 0, w, r>> : st \in { "NULL", "file" }, w \in { "SEEK_SET", "7" },
                                r \in Real }

\* the intercept op, its data being d, called with the arguments a
Apply(op, d, a) ==
    CASE op = "exit" -> _eval_exit(d, a[1])
      [] op = "abort" -> _eval_abort(d)
      [] op = "sleep" -> _eval_sleep(d, a[1], a[2])
      [] op = "fork" -> _eval_fork(d, a[1])
      [] op = "wait" -> _eval_wait(d, a[1], a[2])
      [] op = "waitpid" -> _eval_waitpid(d, a[1], a[2], a[3], a[4])
      [] op = "pause" -> _eval_pause(d)
      [] op = "execl" -> _eval_execl(d, a[1], a[2])
      [] op = "kill" -> _eval_kill(d, a[1], a[2], a[3])
      [] op = "raise" -> _eval_raise(d, a[1], a[2])
      [] op = "signal" -> _eval_signal(d, a[1], a[2], a[3])
      [] op = "sigaction" -> _eval_sigaction(d, a[1], a[2], a[3], a[4], a[5])
      [] op = "alarm" -> _eval_alarm(d, a[1], a[2])
      [] op = "msgget" -> _eval_msgget(d, a[1], a[2], a[3])
      [] op = "msgsnd" -> _eval_msgsnd(d, a[1], a[2], a[3], a[4], a[5])
      [] op = "msgrcv" -> _eval_msgrcv(d, a[1], a[2], a[3], a[4], a[5], a[6])
      [] op = "msgctl" -> _eval_msgctl(d, a[1], a[2], a[3], a[4])
      [] op = "semget" -> _eval_semget(d, a[1], a[2], a[3], a[4])
      [] op = "semctl" -> _eval_semctl(d, a[1], a[2], a[3], a[4], a[5])
      [] op = "semop" -> _eval_semop(d, a[1], a[2], a[3], a[4])
      [] op = "shmget" -> _eval_shmget(d, a[1], a[2], a[3], a[4])
      [] op = "shmat" -> _eval_shmat(d, a[1], a[2], a[3], a[4])
      [] op = "shmdt" -> _eval_shmdt(d, a[1], a[2])
      [] op = "shmctl" -> _eval_shmctl(d, a[1], a[2], a[3], a[4])
      [] op = "mkfifo" -> _eval_mkfifo(d, a[1], a[2], a[3])
      [] op = "isfifo" -> _eval_isfifo(d, a[1])
      [] op = "remove" -> _eval_remove(d, a[1], a[2])
      [] op = "unlink" -> _eval_unlink(d, a[1], a[2])
      [] op = "atoi" -> _eval_atoi(d, a[1])
      [] op = "fclose" -> _eval_fclose(d, a[1], a[2])
      [] op = "fread" -> _eval_fread(d, a[1], a[2], a[3], a[4], a[5])
      [] op = "fwrite" -> _eval_fwrite(d, a[1], a[2], a[3], a[4], a[5])
      [] op = "fseek" -> _eval_fseek(d, a[1], a[2], a[3], a[4])

\* a call of the intercept op with the arguments a
Call(op, a) == Intercept(op, [Apply(op, rec[op], a) EXCEPT !.arg = a])

ProcessOps == { "exit", "abort", "sleep", "fork", "wait", "waitpid", "pause", "execl" }
SignalOps == { "kill", "raise", "signal", "sigaction", "alarm" }
IpcOps == { "msgget", "msgsnd", "msgrcv", "msgctl", "semget", "semctl", "semop",
            "shmget", "shmat", "shmdt", "shmctl" }
FileOps == { "mkfifo", "isfifo", "remove", "unlink", "atoi", "fclose", "fread",
             "fwrite", "fseek" }

CallProcess == \E op \in ProcessOps : \E a \in Args(op) : Call(op, a)

CallSignal == \E op \in SignalOps : \E a \in Args(op) : Call(op, a)

CallIpc == \E op \in IpcOps : \E a \in Args(op) : Call(op, a)

CallFile == \E op \in FileOps : \E a \in Args(op) : Call(op, a)

\* what the tested code writes to the error log, and the messages the driver
\* looks for at its head
ErrorTexts == { <<"a">> }
ErrorNeedles == { <<"a">>, <<"prevented sending signal to self">> }

\* One run of the harness: the driver calls eval_reset, configures an
\* intercept and runs the tested code in a capture cycle, and the tested code
\* calls the intercept. The error log is followed in the runs that are about
\* kill: there the tested code writes to it and the driver checks its head
\* after the capture cycle. The driver asks for the description of the outcome
\* in the runs that are about exit and abort.
NextOps ==
    \/ pc = "tested" /\ CallProcess
    \/ pc = "tested" /\ CallSignal
    \/ pc = "tested" /\ CallIpc
    \/ pc = "tested" /\ CallFile
    \/ pc = "tested" /\ hist.focus = "kill" /\ \E t \in ErrorTexts : EvalLog("error", t)
    \/ hist.ran /\ hist.focus = "kill" /\ \E m \in ErrorNeedles : EvalCheckErrorlog(m)
    \/ ~hist.ran /\ \E op \in Ops, a \in Actions, cfg \in BOOLEAN : Configure(op, a, cfg)
    \/ hist.ran /\ hist.focus \in { "exit", "abort" } /\ EvalTermination
    \/ EvalReset
    \/ ~hist.ran /\ hist.focus # "unset" /\ CatchBegin
    \/ CatchEnd
    \/ Recover

SpecOps == InitOps /\ [][NextOps]_vars

\* eval_termination on every outcome: the values of _eval_env.stat, with one
\* that is no tag, of _eval_exit_data.status and of _eval_env.signal, with
\* two that are no signal
TermStats == { Normal, EVAL_CATCH_EXIT, EVAL_CATCH_ABORT, EVAL_CATCH_BLOCKED,
               EVAL_CATCH_SIGNAL, EVAL_CATCH_LOG_OVERFLOW, "99" }
TermStatuses == { 0, 1, 2, 7 }
TermSignals == Signals \cup { NoSignal, "99" }

InitTerm ==
    /\ logs = [l \in LogIds |-> FreshLog]
    /\ consumed = [l \in LogIds |-> <<>>]
    /\ stats = [error |-> 0, info |-> 0]
    /\ \E st \in TermStats, sig \in TermSignals :
          env = [EnvInit EXCEPT !.stat = st, !.signal = sig]
    /\ timer = 0
    /\ pc = "driver"
    /\ probe = ProbeIdle
    /\ \E status \in TermStatuses :
          rec = [eval_reset EXCEPT !["exit"].status = status]
    /\ errno = "0"
    /\ call = NoCall
    /\ disp = DefaultDisp
    /\ hist = HistInit(disp)

NextTerm == EvalTermination

SpecTerm == InitTerm /\ [][NextTerm]_vars

\* the driver reports messages of its own and asks for the count of errors
InitStats ==
    /\ InitCommon
    /\ disp = DefaultDisp
    /\ hist = HistInit(disp)

NextStats ==
    \/ \E t \in Texts : EvalError(t)
    \/ \E t \in Texts : EvalInfo(t)
    \/ \E t \in Texts : EvalSuccess(t)
    \/ \E t \in Texts : EvalComplete(t)
    \/ ResetStats
    \/ EvalReset

SpecStats == InitStats /\ [][NextStats]_vars

\* The driver after the tested code has run: the logs hold the lines the
\* tested code appended, some of them already removed, and the driver checks
\* the heads of the success and error logs and clears or closes the logs.
\* LogAfter(n, k) is a log after initlog on zeroed storage, n appends and the
\* removal of the first k lines.
LineNo(i) == vsnprintf(IF i % 2 = 0 THEN <<"a">> ELSE LongText, LOGLINE)

LogAfter(n, k) ==
    [buffer |-> [i \in 0..(LOGSIZE - 1) |-> IF i < n THEN LineNo(i) ELSE <<>>],
     start |-> IF n = 0 THEN -1 ELSE k,
     end |-> n]

\* the messages the driver expects at the head of a log: those of Needles and
\* one as long as a full line that differs from it in its last character
Expected == Needles \cup { <<"b", "a", "b", "a", "b", "a", "a">> }

InitCheck ==
    /\ \E ns \in 0..LOGSIZE, ne \in 0..LOGSIZE, nd \in 0..LOGSIZE :
       \E ks \in 0..ns, ke \in 0..ne :
          /\ logs = [l \in LogIds |-> CASE l = "success" -> LogAfter(ns, ks)
                                         [] l = "error" -> LogAfter(ne, ke)
                                         [] OTHER -> LogAfter(nd, 0)]
          /\ consumed = [l \in LogIds |->
                            CASE l = "success" -> [i \in 1..ks |-> LineNo(i - 1)]
                              [] l = "error" -> [i \in 1..ke |-> LineNo(i - 1)]
                              [] OTHER -> <<>>]
    /\ stats = [error |-> 0, info |-> 0]
    /\ env = EnvInit
    /\ timer = 0
    /\ pc = "driver"
    /\ probe = ProbeIdle
    /\ rec = eval_reset_vars
    /\ errno = "0"
    /\ call = NoCall
    /\ disp = DefaultDisp
    /\ hist = HistInit(disp)

NextCheck ==
    \/ \E m \in Expected : EvalCheckSuccesslog(m)
    \/ \E m \in Expected : EvalCheckErrorlog(m)
    \/ EvalClearLogs
    \/ \E t \in Texts : EvalCloseLogs(t)
    \/ ResetStats

SpecCheck == InitCheck /\ [][NextCheck]_vars

\* A run about messages: after eval_reset the driver configures msgsnd and
\* msgrcv and runs the tested code in a capture cycle, and the tested code
\* sends and receives.
MsgOps == { "msgsnd", "msgrcv" }
MsgActions == { ACTION_DEFAULT, ACTION_SUCCESS, ACTION_INJECT }

InitMsg ==
    /\ logs = [l \in LogIds |-> FreshLog]
    /\ consumed = [l \in LogIds |-> <<>>]
    /\ stats = [error |-> 0, info |-> 0]
    /\ env = [EnvInit EXCEPT !.timeout = EVAL_TIMEOUT]
    /\ timer = 0
    /\ pc = "driver"
    /\ probe = ProbeIdle
    /\ rec = eval_reset
    /\ errno = "0"
    /\ call = NoCall
    /\ disp = DefaultDisp
    /\ hist = [HistInit(disp) EXCEPT !.focus = "msg"]

NextMsg ==
    \/ ~hist.ran /\ \E op \in MsgOps, a \in MsgActions, cfg \in BOOLEAN :
                       Configure(op, a, cfg)
    \/ pc = "tested" /\ \E op \in MsgOps : \E a \in Args(op) : Call(op, a)
    \/ ~hist.ran /\ CatchBegin
    \/ CatchEnd
    \/ Recover

SpecMsg == InitMsg /\ [][NextMsg]_vars

\* The driver calls into eval.c outside a capture cycle as well: it
\* configures an intercept, calls it or writes to a log itself, and runs
\* capture cycles in between.
DriverOps == { "exit", "abort", "sleep", "pause" }
DriverActions == { ACTION_DEFAULT, ACTION_WARN, ACTION_BLOCK }

InitDriver ==
    /\ InitCommon
    /\ disp = DefaultDisp
    /\ hist = HistInit(disp)

NextDriver ==
    \/ \E op \in DriverOps, a \in DriverActions :
          rec[op].status = 0 /\ Configure(op, a, FALSE)
    \/ \E op \in DriverOps : \E a \in Args(op) : Call(op, a)
    \/ \E l \in LogIds, t \in Texts : EvalLog(l, t)
    \/ EvalReset
    \/ CatchBegin
    \/ CatchEnd
    \/ Recover

SpecDriver == InitDriver /\ [][NextDriver]_vars

\* Runs about msgget, semget and shmget: the driver sets the action before a
\* capture cycle and between capture cycles, and the tested code calls the
\* intercept in each of them.
GetOps == { "msgget", "semget", "shmget" }
RetryActions == { ACTION_SUCCESS, ACTION_ERROR, ACTION_RETRY }

InitRetry ==
    /\ InitCommon
    /\ disp = DefaultDisp
    /\ hist = HistInit(disp)

NextRetry ==
    \/ \E op \in GetOps, a \in RetryActions, cfg \in BOOLEAN : Configure(op, a, cfg)
    \/ pc = "tested" /\ \E op \in GetOps : \E a \in Args(op) : Call(op, a)
    \/ EvalReset
    \/ hist.focus # "unset" /\ CatchBegin
    \/ CatchEnd

SpecRetry == InitRetry /\ [][NextRetry]_vars

-----------------------------------------------------------------------------
(* Properties of the verification logs *)

\* x occurs in line: line = pre \o x \o post for some pre and post
Occurs(x, line) ==
    \E a \in 0..Len(line), b \in 0..Len(line) :
        /\ a + Len(x) + b = Len(line)
        /\ \A i \in 1..Len(x) : line[a + i] = x[i]

\* the lines appended to a log since its last initlog, in order
Appended(log) == [i \in 1..log.end |-> log.buffer[i - 1]]

IsPrefix(s, t) == Len(s) <= Len(t) /\ \A i \in 1..Len(s) : s[i] = t[i]

\* the step is a call of rmheadmsg that moved the head by one and returned 0
Popped(l) ==
    /\ logs'[l] = [logs[l] EXCEPT !.start = @ + 1]
    /\ call'.ret = 0

\* the step is a call of rmheadmsg that left the log alone and returned -1
Refused(l) ==
    /\ logs'[l] = logs[l]
    /\ call'.ret = -1

\* C2 as stated: rmheadmsg(log, x) advances the head by one and returns
\* success if and only if x equals the line loghead returns; otherwise the
\* log is unchanged and the call fails.
C2_PopIffEqualsHead ==
    [][call'.op = "rmheadmsg" =>
         IF call'.arg = loghead(logs[call'.log])
         THEN Popped(call'.log)
         ELSE Refused(call'.log)]_vars

\* C2 amended: rmheadmsg(log, x) advances the head by one and returns 0 if
\* and only if the head index is not -1 and x occurs in the line stored at
\* the head index; otherwise the log is unchanged and the call returns -1.
\* A head index beyond the buffer reads whatever memory holds there, and
\* the call still either advances the head by one and returns 0 or leaves
\* the log alone and returns -1.
C2_PopIffOccursInHead ==
    [][call'.op = "rmheadmsg" =>
         IF logs[call'.log].start < 0
         THEN Refused(call'.log)
         ELSE IF logs[call'.log].start < LOGSIZE
         THEN IF Occurs(call'.arg, logs[call'.log].buffer[logs[call'.log].start])
              THEN Popped(call'.log)
              ELSE Refused(call'.log)
         ELSE Popped(call'.log) \/ Refused(call'.log)]_vars

\* a line was removed by a message that is a proper, non-empty part of it
C2_Witness ==
    /\ call.op = "rmheadmsg"
    /\ call.ret = 0
    /\ call.arg # <<>>
    /\ consumed[call.log] # <<>>
    /\ consumed[call.log][Len(consumed[call.log])] # call.arg
    /\ logs[call.log].start <= logs[call.log].end

\* C3: every log is either empty with head -1 and tail 0, or has
\* 0 <= head <= tail <= LOGSIZE.
C3_HeadWithinTail ==
    \A l \in LogIds :
        \/ logs[l].start = -1 /\ logs[l].end = 0
        \/ 0 <= logs[l].start /\ logs[l].start <= logs[l].end
                              /\ logs[l].end <= LOGSIZE

\* two lines were removed from a log that only one was appended to
C3_Witness ==
    /\ call.op = "rmheadmsg"
    /\ call.ret = 0
    /\ logs[call.log].end = 1
    /\ logs[call.log].start = 2

\* C4: the lines removed from a log since its last reset are a prefix of the
\* lines appended to it since then, in the same order.
C4_ConsumedIsPrefixOfAppended ==
    \A l \in LogIds : IsPrefix(consumed[l], Appended(logs[l]))

\* the line removed last is none of the lines appended since initlog
C4_Witness ==
    /\ call.op = "rmheadmsg"
    /\ call.ret = 0
    /\ consumed[call.log] # <<>>
    /\ \A i \in 1..logs[call.log].end :
           Appended(logs[call.log])[i] # consumed[call.log][Len(consumed[call.log])]

\* C5: an append to a log whose tail is LOGSIZE changes no log and escapes to
\* the recovery point with EVAL_CATCH_LOG_OVERFLOW if the catch flag is set,
\* and ends the process otherwise; an append to a log whose tail is below
\* LOGSIZE advances the tail by one and control stays where it is. The tail
\* is 0 after initlog, so the first LOGSIZE appends succeed.
C5_OverflowAtCapacityOnly ==
    [][/\ call'.op = "eval_log" =>
            IF logs[call'.log].end = LOGSIZE
            THEN /\ logs' = logs
                 /\ IF env.catch
                    THEN pc' = "recovered" /\ env'.stat = EVAL_CATCH_LOG_OVERFLOW
                    ELSE pc' = "exited"
            ELSE /\ logs[call'.log].end < LOGSIZE
                 /\ logs'[call'.log].end = logs[call'.log].end + 1
                 /\ pc' = pc
                 /\ env' = env
       /\ call'.op = "initlog" => logs'[call'.log].end = 0]_vars

\* the append after LOGSIZE successful ones escaped from an armed cycle
C5_Witness ==
    /\ call.op = "eval_log"
    /\ call.ret = -1
    /\ pc = "recovered"
    /\ env.stat = EVAL_CATCH_LOG_OVERFLOW
    /\ logs[call.log].end = LOGSIZE

-----------------------------------------------------------------------------
(* Properties of the capture cycle and of the probe *)

Probes == { "eval_checkptr", "eval_checkconstptr" }

\* C6: after _eval_disarm_signals the five dispositions are the ones in force
\* before the cycle's _eval_arm_signals, whatever happened in between.
C6_DisarmRestoresArmTime ==
    call.op = "_eval_disarm_signals" => disp = hist.armDisp

\* a cycle armed with a timeout, from different SIGSEGV and SIGBUS
\* dispositions, was left by an escape that interrupted a probe
C6_Witness ==
    /\ call.op = "_eval_disarm_signals"
    /\ call.text = <<"e">>
    /\ hist.interrupted
    /\ env.timeout > 0
    /\ hist.armDisp[SIGSEGV] # hist.armDisp[SIGBUS]
    /\ hist.armDisp[SIGPROF] = "h1"

\* C7: when eval_checkptr or eval_checkconstptr returns, SIGSEGV and SIGBUS
\* each have the disposition they had before the call.
C7_ProbeRestoresBoth ==
    call.op \in Probes =>
        /\ disp[SIGSEGV] = hist.probeDisp[SIGSEGV]
        /\ disp[SIGBUS] = hist.probeDisp[SIGBUS]

\* a probe of an accessible address, made outside a cycle, gave SIGBUS the
\* disposition of SIGSEGV
C7_Witness ==
    /\ call.op \in Probes
    /\ call.ret = 0
    /\ pc = "driver"
    /\ hist.probeDisp[SIGBUS] # hist.probeDisp[SIGSEGV]
    /\ disp[SIGSEGV] = hist.probeDisp[SIGSEGV]
    /\ disp[SIGBUS] = hist.probeDisp[SIGSEGV]

\* C8: a probe that returns inside an armed cycle leaves SIGSEGV and SIGBUS
\* directed to _eval_sighandler, the cycle's disarm restores the dispositions
\* in force before arming, and whenever no probe and no cycle is in progress,
\* after any sequence of them, the dispositions are the original ones.
C8_ProbesAndCyclesCompose ==
    /\ (pc = "tested" /\ call.op \in Probes) =>
           disp[SIGSEGV] = CaptureHandler /\ disp[SIGBUS] = CaptureHandler
    /\ call.op = "_eval_disarm_signals" => disp = hist.armDisp
    /\ (pc = "driver" /\ probe.pc = "idle") => disp = hist.disp0

\* a cycle that followed a probe was disarmed, and the dispositions are not
\* the original ones
C8_Witness ==
    /\ call.op = "_eval_disarm_signals"
    /\ pc = "driver"
    /\ probe.pc = "idle"
    /\ disp = hist.armDisp
    /\ disp # hist.disp0

\* what the probe is to answer for each kind of address
ExpectedVerdict(ptr, const) ==
    CASE ptr = "NULL" -> 1
      [] ptr = "MINUS1" -> 2
      [] ptr = "rw" -> 0
      [] ptr = "ro" -> IF const THEN 0 ELSE 3
      [] ptr = "unmapped" -> 3
      [] ptr = "misaligned" -> 4

\* C9: the probe returns 1 for NULL and 2 for (void*)-1, having read no
\* memory and changed no disposition; 0 for an address its access succeeds
\* on, 3 when the access raises SIGSEGV and 4 when it raises SIGBUS; the
\* answer depends on the address and the memory behind it only.
C9_ProbeVerdict ==
    call.op \in Probes =>
        /\ call.ret = ExpectedVerdict(call.arg[1], call.op = "eval_checkconstptr")
        /\ call.arg[1] \in { "NULL", "MINUS1" } =>
               ~hist.accessed /\ disp = hist.probeDisp

\* a probe inside an armed cycle answered Bus Error
C9_Witness ==
    /\ call.op = "eval_checkptr"
    /\ call.ret = 4
    /\ pc = "tested"
    /\ hist.accessed

-----------------------------------------------------------------------------
(* Properties of the intercepts *)

\* C1 as stated: a call of any intercept, whatever its action and however it
\* ends, increments the status field of its data by exactly 1.
C1_EveryInterceptCounts ==
    [][call'.op \in Ops =>
         rec'[call'.op].status = rec[call'.op].status + 1]_vars

\* C1 amended: a call of any intercept other than exit and abort, whatever
\* its action and however it ends, increments the status field of its data
\* by exactly 1; a call of exit sets the status field of its data to the
\* exit status it was called with, and a call of abort sets it to 1.
C1_InterceptsButExitAbortCount ==
    [][/\ call'.op \in Ops \ { "exit", "abort" } =>
            rec'[call'.op].status = rec[call'.op].status + 1
       /\ call'.op = "exit" => rec'["exit"].status = call'.arg[1]
       /\ call'.op = "abort" => rec'["abort"].status = 1]_vars

\* a second call was counted although ACTION_BLOCK made it escape
C1_Witness ==
    /\ call.op \in Ops \ { "exit", "abort" }
    /\ call.text = <<EVAL_CATCH_BLOCKED>>
    /\ rec[call.op].action = ACTION_BLOCK
    /\ rec[call.op].status = 1
    /\ pc = "recovered"

\* the identifier the driver configured for msgget, semget or shmget
ConfiguredId(op, d) ==
    CASE op = "msgget" -> d.msqid
      [] op = "semget" -> d.semid
      [] op = "shmget" -> d.shmid

\* C10: under ACTION_RETRY the first call of msgget, semget or shmget returns
\* -1 with errno ENOENT, the second returns the configured identifier, and
\* the third and every later call returns -1 with errno EINVAL.
C10_RetryLaw ==
    [][(/\ call'.op \in { "msgget", "semget", "shmget" }
        /\ rec[call'.op].action = ACTION_RETRY) =>
         CASE rec[call'.op].status = 0 -> call'.ret = -1 /\ errno' = ENOENT
           [] rec[call'.op].status = 1 ->
                 call'.ret = ConfiguredId(call'.op, rec[call'.op])
           [] OTHER -> call'.ret = -1 /\ errno' = EINVAL]_vars

\* the third call of msgget under ACTION_RETRY answered the identifier of the
\* second call and wrote -1 to the data of shmget
C10_Witness ==
    /\ call.op = "msgget"
    /\ rec["msgget"].action = ACTION_RETRY
    /\ rec["msgget"].status = 3
    /\ call.ret = 5
    /\ rec["shmget"].ret = -1

-----------------------------------------------------------------------------
(* Properties of the actions *)

\* the flags argument of a call of msgget, semget or shmget
FlagsArg(a) == a[Len(a) - 1]

\* C11: under ACTION_CREATE msgget, semget and shmget return the configured
\* identifier if and only if the flags contain IPC_CREAT; without IPC_CREAT
\* the call returns -1 with errno ENOENT.
C11_CreateRule ==
    [][(/\ call'.op \in { "msgget", "semget", "shmget" }
        /\ rec[call'.op].action = ACTION_CREATE) =>
         IF HasFlag(FlagsArg(call'.arg), IPC_CREAT)
         THEN call'.ret = ConfiguredId(call'.op, rec[call'.op])
         ELSE call'.ret = -1 /\ errno' = ENOENT]_vars

\* semget under ACTION_CREATE, called without IPC_CREAT, answered the
\* configured identifier
C11_Witness ==
    /\ call.op = "semget"
    /\ rec["semget"].action = ACTION_CREATE
    /\ ~HasFlag(FlagsArg(call.arg), IPC_CREAT)
    /\ call.ret = 5

\* the class of targets that kill refuses under ACTION_PROTECT, as its
\* message names it
ProtectedClass(pid) ==
    CASE pid = SelfPid -> "prevented sending signal to self"
      [] pid = ParentPid -> "prevented sending signal to parent"
      [] pid = 0 -> "prevented sending signal to every process in the process group"
      [] pid = -1 ->
            "prevented sending signal to to every process belonging to process owner"

SelfText == <<"prevented sending signal to self">>

\* the step is a call of kill under ACTION_PROTECT that targets the caller
ProtectedSelf ==
    /\ call'.op = "kill"
    /\ rec["kill"].action = ACTION_PROTECT
    /\ call'.arg[1] = SelfPid

\* C13 as stated: after a call of kill under ACTION_PROTECT that targets the
\* caller's own pid, the head line of the error log contains "prevented
\* sending signal to self".
C13_ErrorLogHeadNamesSelf ==
    (/\ call.op = "kill"
     /\ rec["kill"].action = ACTION_PROTECT
     /\ call.arg[1] = SelfPid) => strstr(loghead(logs["error"]), SelfText)

\* C13, amended: a call of kill under ACTION_PROTECT that targets the
\* caller's own pid returns 0, prints the message "(kill) prevented sending
\* signal to self", adds 1 to the error counter and leaves the three logs as
\* they were; and eval_check_errorlog returns 1 exactly when the error log
\* has a head line and that line, which only the tested code's errorlog can
\* have written, contains the text: on an error log without a head line it
\* returns 0, counts an error and leaves the log alone.
C13_ProtectCountsAndLeavesLogs ==
    [][/\ ProtectedSelf =>
            /\ call'.ret = 0
            /\ logs' = logs
            /\ stats'.error = stats.error + 1
            /\ hist'.msgs = << <<"kill", SelfText[1]>> >>
       /\ (call'.op = "eval_check_errorlog" /\ logs["error"].start < LOGSIZE) =>
            IF /\ logs["error"].start >= 0
               /\ strstr(logs["error"].buffer[logs["error"].start], call'.arg)
            THEN /\ call'.ret = 1
                 /\ logs' = [logs EXCEPT !["error"].start = @ + 1]
                 /\ stats' = [stats EXCEPT !.info = @ + 1]
            ELSE /\ call'.ret = 0
                 /\ logs' = logs
                 /\ stats' = [stats EXCEPT !.error = @ + 1]]_vars

\* kill under ACTION_PROTECT refused to signal the caller, the error log was
\* left without a line, and the eval_check_errorlog for the text that
\* followed the capture cycle failed
C13_Witness ==
    /\ call.op = "eval_check_errorlog"
    /\ call.arg = SelfText
    /\ call.ret = 0
    /\ rec["kill"].action = ACTION_PROTECT
    /\ rec["kill"].status = 1
    /\ rec["kill"].pid = SelfPid
    /\ rec["kill"].ret = 0
    /\ logs["error"] = FreshLog
    /\ stats.error = 2

\* the name an intercept gives itself in its messages
MessageName(op) == IF op = "isfifo" THEN "S_ISFIFO" ELSE op

\* the step is a call of op that reported "<operation>() called, aborting",
\* escaped to the recovery point with EVAL_CATCH_BLOCKED, did not call the
\* wrapped function and left the logs alone
Blocked(op) ==
    /\ hist'.msgs = << <<MessageName(op), "called, aborting">> >>
    /\ stats'.error >= stats.error + 1
    /\ call'.text = <<EVAL_CATCH_BLOCKED>>
    /\ pc' = "recovered"
    /\ env'.stat = EVAL_CATCH_BLOCKED
    /\ hist'.real = 0
    /\ logs' = logs

\* C14 as stated: for every intercept whose action is ACTION_BLOCK, a call
\* reports one "<operation>() called, aborting" error and escapes to the
\* recovery point with EVAL_CATCH_BLOCKED; the wrapped function is not called,
\* nothing is appended to the data log and the call does not return.
C14_EveryInterceptBlocks ==
    [][\A op \in Ops :
         (call'.op = op /\ rec[op].action = ACTION_BLOCK) => Blocked(op)]_vars

\* a call of signal or sigaction that names a signal of the harness is
\* refused before the action is looked at
Reserved(op, a) == op \in { "signal", "sigaction" } /\ bad_signal(a[1])

\* atoi copies the string it was given when the probe found it invalid
CopiesInvalid(op, a) == op = "atoi" /\ eval_checkconstptr(a[1]) # 0

\* What holds of ACTION_BLOCK: the rule of C14 for every intercept but exit
\* and abort, two kinds of call excepted. A call of signal or sigaction with
\* a signal that the harness reserves returns with an error. A call of atoi
\* with an invalid string escapes without the message, or ends the process,
\* on the fault of the copy. exit and abort have no branch for ACTION_BLOCK:
\* they report no error and escape with EVAL_CATCH_EXIT and EVAL_CATCH_ABORT
\* as under any other action.
BlockOutcomes ==
    [][/\ \A op \in Ops \ { "exit", "abort" } :
            (/\ call'.op = op
             /\ rec[op].action = ACTION_BLOCK
             /\ ~Reserved(op, call'.arg)
             /\ ~CopiesInvalid(op, call'.arg)) => Blocked(op)
       /\ (/\ call'.op = "atoi"
           /\ rec["atoi"].action = ACTION_BLOCK
           /\ CopiesInvalid("atoi", call'.arg)) =>
               /\ call'.text \in { <<SIGSEGV>>, <<Normal>> }
               /\ hist'.msgs = <<>>
               /\ hist'.real = 0
       /\ \A op \in { "signal", "sigaction" } :
            (/\ call'.op = op
             /\ rec[op].action = ACTION_BLOCK
             /\ Reserved(op, call'.arg)) =>
               /\ call'.text = <<Normal>>
               /\ call'.ret = IF op = "signal" THEN "SIG_ERR" ELSE -1
               /\ errno' = EINVAL
               /\ hist'.real = 0
       /\ \A op \in { "exit", "abort" } :
            (call'.op = op /\ rec[op].action = ACTION_BLOCK) =>
               /\ stats'.error = stats.error
               /\ call'.text = <<IF op = "exit" THEN EVAL_CATCH_EXIT
                                 ELSE EVAL_CATCH_ABORT>>
               /\ pc' = "recovered"
               /\ hist'.real = 0
               /\ logs' = logs]_vars

\* atoi under ACTION_BLOCK, called with a NULL string, faulted before the
\* action was looked at: the capture cycle caught SIGSEGV
C14_Witness ==
    /\ call.op = "atoi"
    /\ rec["atoi"].action = ACTION_BLOCK
    /\ call.arg[1] = "NULL"
    /\ call.text = <<SIGSEGV>>
    /\ pc = "recovered"
    /\ env.stat = EVAL_CATCH_SIGNAL
    /\ hist.msgs = <<>>

\* the intercepts that take a pointer
PtrOps == { "wait", "waitpid", "sigaction", "msgsnd", "msgrcv", "semop", "mkfifo",
            "remove", "unlink", "atoi", "fclose", "fread", "fwrite", "fseek", "execl" }

\* the probe is made of a pointer and finds it invalid
Invalid(ptr) == eval_checkptr(ptr) # 0
InvalidConst(ptr) == eval_checkconstptr(ptr) # 0

\* the call of op with the arguments a probes a pointer and finds it invalid;
\* wait, waitpid and sigaction do not probe a NULL pointer, fread and fwrite
\* do not probe when the buffer is the stream
ProbedInvalid(op, a) ==
    CASE op = "wait" -> a[1] # "NULL" /\ Invalid(a[1])
      [] op = "waitpid" -> a[2] # "NULL" /\ Invalid(a[2])
      [] op = "sigaction" ->
            \/ a[2] # "NULL" /\ InvalidConst(a[2])
            \/ a[3] # "NULL" /\ Invalid(a[3])
      [] op = "msgsnd" -> InvalidConst(a[2])
      [] op \in { "msgrcv", "semop" } -> Invalid(a[2])
      [] op \in { "mkfifo", "remove", "unlink", "execl", "atoi" } -> InvalidConst(a[1])
      [] op \in { "fclose", "fseek" } -> Invalid(a[1])
      [] op \in { "fread", "fwrite" } -> a[1] # a[4] /\ (Invalid(a[1]) \/ Invalid(a[4]))
      [] OTHER -> FALSE

\* the value with which an intercept reports an error: no item for fread and
\* fwrite, -1 (EOF for fclose) for the others
ErrorValue(op) == IF op \in { "fread", "fwrite" } THEN 0 ELSE -1

\* the arguments a of a call of op, with a valid pointer for each pointer
\* that is probed
Valid(p) == IF p = "NULL" THEN p ELSE "rw"
WithValid(op, a) ==
    CASE op = "wait" -> [a EXCEPT ![1] = Valid(@)]
      [] op = "waitpid" -> [a EXCEPT ![2] = Valid(@)]
      [] op = "sigaction" -> [a EXCEPT ![2] = Valid(@), ![3] = Valid(@)]
      [] op \in { "msgsnd", "msgrcv", "semop" } -> [a EXCEPT ![2] = "rw"]
      [] op \in { "fread", "fwrite" } -> [a EXCEPT ![1] = "rw"]
      [] OTHER -> [a EXCEPT ![1] = "rw"]

\* the step is a call of op under one of actions that found a pointer
\* invalid and did not end on the overflow of the data log
FoundInvalid(op, actions) ==
    /\ call'.op = op
    /\ rec[op].action \in actions
    /\ ProbedInvalid(op, call'.arg)
    /\ call'.text # <<EVAL_CATCH_LOG_OVERFLOW>>

OtherArgsOk(op, a) ==
    CASE op = "sigaction" -> ~bad_signal(a[1])
      [] op = "fseek" -> a[3] \in Whences
      [] op \in { "fread", "fwrite" } -> a[1] # a[4] /\ a[2] * a[3] > 0
      [] OTHER -> TRUE

\* the rule of ACTION_DEFAULT for a step that is a call of op: with valid
\* pointers the wrapped function is called once, no error is recorded and the
\* call returns what the function answered; with an invalid pointer the
\* function is not called and the call returns the error value
DefaultRule(op) ==
    (/\ call'.op = op
     /\ rec[op].action = ACTION_DEFAULT
     /\ OtherArgsOk(op, call'.arg)) =>
        IF ProbedInvalid(op, call'.arg)
        THEN /\ hist'.real = 0
             /\ call'.text = <<Normal>>
             /\ call'.ret = ErrorValue(op)
        ELSE /\ hist'.real = 1
             /\ stats'.error = stats.error
             /\ LET r == call'.arg[Len(call'.arg)]
                IN  IF r.ret = -1
                    THEN /\ call'.text = <<Normal>>
                         /\ call'.ret = ErrorValue(op)
                         /\ errno' = r.errno
                    ELSE /\ call'.text \in { <<Normal>>, <<Replaced>> }
                         /\ errno' = errno

\* C16: under ACTION_DEFAULT every intercept that takes a pointer, atoi and
\* fclose in particular, calls the wrapped function exactly once, returns its
\* result and records no error when every supplied pointer is valid, and
\* returns the error value without calling the function when a supplied
\* pointer is invalid.
C16_DefaultRule == [][\A op \in PtrOps : DefaultRule(op)]_vars

\* the rule of ACTION_DEFAULT holds of the intercepts that take a pointer
\* other than atoi and fclose
DefaultRuleButAtoiFclose ==
    [][\A op \in PtrOps \ { "atoi", "fclose" } : DefaultRule(op)]_vars

\* atoi under ACTION_DEFAULT, called with a valid string, reported an error
\* and returned -1 without calling the wrapped function
C16_Witness ==
    /\ call.op = "atoi"
    /\ rec["atoi"].action = ACTION_DEFAULT
    /\ call.arg = <<"rw">>
    /\ call.text = <<Normal>>
    /\ call.ret = -1
    /\ hist.real = 0
    /\ stats.error = 1

\* C17: for every intercepted operation, a call made while the action is
\* ACTION_ERROR or ACTION_SUCCESS does not call the wrapped function, whatever
\* the arguments.
C17_ErrorSuccessNeverReal ==
    [][\A op \in Ops :
         (call'.op = op /\ rec[op].action \in { ACTION_ERROR, ACTION_SUCCESS }) =>
            hist'.real = 0]_vars

\* the same of every pair of intercept and action but pause under
\* ACTION_ERROR and execl under ACTION_SUCCESS
ErrorSuccessNeverRealButTwo ==
    [][\A op \in Ops :
         (/\ call'.op = op
          /\ rec[op].action \in { ACTION_ERROR, ACTION_SUCCESS }
          /\ <<op, rec[op].action>> \notin { <<"pause", ACTION_ERROR>>,
                                              <<"execl", ACTION_SUCCESS>> }) =>
            hist'.real = 0]_vars

\* execl under ACTION_SUCCESS, called with a valid path, called execv, which
\* replaced the process
C17_Witness ==
    /\ call.op = "execl"
    /\ rec["execl"].action = ACTION_SUCCESS
    /\ call.arg[1] = "rw"
    /\ hist.real = 1
    /\ pc = "replaced"

\* the intercepts with a branch for ACTION_ERROR
ErrorOps == Ops \ { "exit", "abort", "pause" }

\* the wrapped functions that report a failure through errno
ErrnoOps == ErrorOps \ { "sleep", "alarm", "isfifo", "atoi" }

\* what a call under ACTION_ERROR is to return: SIG_ERR, (void*)-1, no item,
\* the seconds left of sleep and alarm, not a FIFO, INT32_MIN of atoi, and -1
\* (EOF for fclose) of the others
ErrorReturn(op) ==
    CASE op = "signal" -> "SIG_ERR"
      [] op = "shmat" -> "MINUS1"
      [] op \in { "fread", "fwrite", "isfifo" } -> 0
      [] op \in { "sleep", "alarm" } -> 1
      [] op = "atoi" -> INT32_MIN
      [] OTHER -> -1

\* the step is a call of op under ACTION_ERROR that returned
ReturnedError(op) ==
    /\ call'.op = op
    /\ rec[op].action = ACTION_ERROR
    /\ call'.text = <<Normal>>

\* C18: for every intercept that has ACTION_ERROR, a call under ACTION_ERROR
\* returns the error value of the operation and sets errno to the error code
\* before it returns.
C18_ErrorRule ==
    [][\A op \in ErrorOps :
         ReturnedError(op) =>
            /\ call'.ret = ErrorReturn(op)
            /\ op \in ErrnoOps => errno' = EINVAL]_vars

\* the intercepts whose branch for ACTION_ERROR does not assign errno
SilentOps == { "fork", "signal", "sigaction", "msgsnd", "msgrcv", "execl" }

\* the same with errno as it is left: every intercept returns the error
\* value; those of SilentOps leave errno as it was unless they refused a
\* reserved signal, the others set EINVAL
ErrorRuleButErrno ==
    [][\A op \in ErrorOps :
         ReturnedError(op) =>
            /\ call'.ret = ErrorReturn(op)
            /\ hist'.real = 0
            /\ (op \in ErrnoOps \ SilentOps) => errno' = EINVAL
            /\ (op \in SilentOps /\ ~Reserved(op, call'.arg)) => errno' = errno]_vars

\* fork under ACTION_ERROR returned -1 and errno is 0
C18_Witness ==
    /\ call.op = "fork"
    /\ rec["fork"].action = ACTION_ERROR
    /\ call.text = <<Normal>>
    /\ call.ret = -1
    /\ errno = NoError

\* the call of op with the arguments a as it goes under ACTION_SUCCESS, the
\* data being as they are
UnderSuccess(op, a) == Apply(op, [rec[op] EXCEPT !.action = ACTION_SUCCESS], a)

\* the step is a call of op under ACTION_LOG for which the data log had room
LoggedCall(op) ==
    /\ call'.op = op
    /\ rec[op].action = ACTION_LOG
    /\ call'.text # <<EVAL_CATCH_LOG_OVERFLOW>>

\* the step ends as the call s does: same return value, same data but for the
\* action, same way out of the call, same errno, and the wrapped function
\* called or not as in s
SameAs(op, s) ==
    /\ call'.ret = s.rec.ret
    /\ rec'[op] = [s.rec EXCEPT !.action = ACTION_LOG]
    /\ call'.text = <<s.esc>>
    /\ errno' = s.errno
    /\ hist'.real = s.real

\* C19: for every intercept, every argument tuple and every state of its
\* data, a call under ACTION_LOG returns what the same call under
\* ACTION_SUCCESS returns and leaves the data of the operation and the
\* caller's buffers as that call does; the two differ in the data log only.
C19_LogAsSuccess ==
    [][\A op \in Ops :
         LoggedCall(op) => SameAs(op, UnderSuccess(op, call'.arg))]_vars

\* sigaction under ACTION_LOG reads act->sa_flags before it logs
ReadsAct(op, a) ==
    /\ op = "sigaction"
    /\ ~Reserved(op, a)
    /\ IF a[2] = "NULL" THEN TRUE ELSE ReadFault(a[2]) # NoSignal

\* the same of every intercept but execl, and of sigaction when act can be
\* read
LogAsSuccessButTwo ==
    [][\A op \in Ops \ { "execl" } :
         (LoggedCall(op) /\ ~ReadsAct(op, call'.arg)) =>
            SameAs(op, UnderSuccess(op, call'.arg))]_vars

\* sigaction( SIGUSR1, NULL, oldact ) under ACTION_LOG faulted, while under
\* ACTION_SUCCESS it returns 0
C19_Witness ==
    /\ call.op = "sigaction"
    /\ rec["sigaction"].action = ACTION_LOG
    /\ call.arg[1] = SIGUSR1
    /\ call.arg[2] = "NULL"
    /\ call.text = <<SIGSEGV>>
    /\ UnderSuccess("sigaction", call.arg).esc = Normal

\* the step is a call of op under ACTION_LOG
CalledUnderLog(op) == call'.op = op /\ rec[op].action = ACTION_LOG

\* the lines of the data log were kept and n lines were appended to it
AppendedLines(n) ==
    /\ logs'["data"].end = logs["data"].end + n
    /\ \A i \in 0..(LOGSIZE - 1) :
          i < logs["data"].end => logs'["data"].buffer[i] = logs["data"].buffer[i]

\* the success log and the error log are as they were
OtherLogsKept == logs'["success"] = logs["success"] /\ logs'["error"] = logs["error"]

\* C20: for every intercept, one call under ACTION_LOG appends exactly one
\* line to the data log (its tail advances by 1), the line starts with the
\* name of the operation, followed by its arguments separated by commas, and
\* the success log and the error log are left unchanged.
C20_LogAppendsOneLine ==
    [][\A op \in Ops :
         CalledUnderLog(op) =>
            /\ AppendedLines(1)
            /\ logs'["data"].buffer[logs["data"].end][1] = op
            /\ OtherLogsKept]_vars

\* the name a call is logged under: remove as unlink, the macro S_ISFIFO, and
\* sigaction as signal unless act->sa_flags has SA_SIGINFO
LogName(op, a) ==
    CASE op = "remove" -> "unlink"
      [] op = "isfifo" -> "S_ISFIFO"
      [] op = "sigaction" -> IF a[4] THEN "sigaction" ELSE "signal"
      [] OTHER -> op

\* the number of values the format of the line has after the name
LogValues(op) ==
    CASE op \in { "fork", "pause" } -> 0
      [] op \in { "sleep", "wait", "raise", "alarm", "shmdt", "isfifo", "remove",
                  "unlink", "atoi", "fclose", "execl" } -> 1
      [] op \in { "kill", "signal", "sigaction", "msgget", "mkfifo" } -> 2
      [] op \in { "waitpid", "msgctl", "semget", "semctl", "shmget", "shmat",
                  "shmctl", "fseek" } -> 3
      [] op \in { "msgsnd", "semop", "fread", "fwrite" } -> 4
      [] OTHER -> 5

\* the number of lines a call that returns writes: one for each operation of
\* semop's array, none when the array is invalid or the signal is reserved
LogLines(op, a) ==
    CASE Reserved(op, a) -> 0
      [] op = "semop" -> IF eval_checkptr(a[2]) = 0 THEN a[3] ELSE 0
      [] OTHER -> 1

\* C20 as the code has it: a call under ACTION_LOG of an intercept other than
\* exit and abort that returns appends LogLines lines to the data log, each
\* made of LogName and LogValues values, keeps the lines that were there, and
\* leaves the success log and the error log unchanged
C20_LogAppendsLines ==
    [][\A op \in Ops \ { "exit", "abort" } :
         (CalledUnderLog(op) /\ call'.text = <<Normal>>) =>
            /\ AppendedLines(LogLines(op, call'.arg))
            /\ \A i \in 0..(LOGSIZE - 1) :
                  (logs["data"].end <= i /\ i < logs'["data"].end) =>
                     /\ logs'["data"].buffer[i][1] = LogName(op, call'.arg)
                     /\ Len(logs'["data"].buffer[i]) = 1 + LogValues(op)
            /\ OtherLogsKept]_vars

\* every call under ACTION_LOG, also one that does not return and one of exit
\* or abort, leaves the success log and the error log unchanged
LogNeverTouchesOtherLogs ==
    [][\A op \in Ops : CalledUnderLog(op) => OtherLogsKept]_vars

\* semop under ACTION_LOG with two operations wrote two lines to an empty log
C20_Witness ==
    /\ call.op = "semop"
    /\ rec["semop"].action = ACTION_LOG
    /\ call.arg[3] = 2
    /\ call.text = <<Normal>>
    /\ logs["data"].end = 2
    /\ logs["data"].buffer[0][1] = "semop"
    /\ logs["data"].buffer[1][1] = "semop"

\* the step is a call of signal or sigaction for a reserved signal
ReservedCall(op) == call'.op = op /\ call'.arg[1] \in Signals

\* C21: a call of the signal or sigaction intercept for SIGPROF, SIGSEGV,
\* SIGBUS, SIGFPE or SIGILL returns the error value (SIG_ERR, -1) with errno
\* EINVAL and counts an error, under every action, ACTION_LOG and ACTION_BLOCK
\* included: the wrapped function is not called, nothing is logged, the call
\* returns, and each of these signals that is directed to _eval_sighandler
\* stays so.
C21_ReservedSignalRule ==
    [][\A op \in { "signal", "sigaction" } :
         ReservedCall(op) =>
            /\ IF op = "signal" THEN call'.ret = "SIG_ERR" ELSE call'.ret = -1
            /\ errno' = EINVAL
            /\ stats'.error >= stats.error + 1
            /\ hist'.real = 0
            /\ logs' = logs
            /\ call'.text = <<Normal>>
            /\ pc' = pc
            /\ \A s \in Signals : disp[s] = CaptureHandler => disp'[s] = CaptureHandler]_vars

\* signal( SIGSEGV, handler ) under ACTION_BLOCK in a capture cycle was
\* refused and returned
C21_Witness ==
    /\ call.op = "signal"
    /\ call.arg[1] = SIGSEGV
    /\ rec["signal"].action = ACTION_BLOCK
    /\ call.ret = "SIG_ERR"
    /\ errno = EINVAL
    /\ pc = "tested"
    /\ disp[SIGSEGV] = CaptureHandler

\* the data of every intercept other than op are as they were
OthersKept(op) == \A other \in Ops \ { op } : rec'[other] = rec[other]

\* C22: an intercept changes the data of its own operation only: after a call
\* of one intercept, under any action and whatever the number of the call,
\* the data (status, action, captured parameters, ret, identifiers) of every
\* other intercept are unchanged.
C22_InterceptOwnsItsData ==
    [][\A op \in Ops : call'.op = op => OthersKept(op)]_vars

\* the same of every call but those of msgget under ACTION_RETRY after the
\* second, which write -1 to _eval_shmget_data.ret and nothing else abroad
OwnsItsDataButMsggetRetry ==
    [][\A op \in Ops :
         call'.op = op =>
            IF op = "msgget" /\ rec[op].action = ACTION_RETRY /\ rec[op].status >= 2
            THEN /\ \A other \in Ops \ { op, "shmget" } : rec'[other] = rec[other]
                 /\ rec'["shmget"] = [rec["shmget"] EXCEPT !.ret = -1]
                 /\ rec'[op].ret = rec[op].ret
            ELSE OthersKept(op)]_vars

\* the third call of msgget under ACTION_RETRY changed the data of shmget,
\* which was never called
C22_Witness ==
    /\ call.op = "msgget"
    /\ rec["msgget"].action = ACTION_RETRY
    /\ rec["msgget"].status = 3
    /\ rec["shmget"].status = 0
    /\ rec["shmget"].action = ACTION_DEFAULT
    /\ rec["shmget"].ret # ResetVar.ret

\* C23: after _eval_arm_signals, SIGSEGV, SIGBUS, SIGFPE and SIGILL are
\* directed to _eval_sighandler whatever the timeout; SIGPROF is directed to
\* it and a timer is started if and only if timeout > 0; with timeout <= 0
\* the disposition of SIGPROF and the timer are left as they are by both
\* _eval_arm_signals and _eval_disarm_signals.
C23_ArmRule ==
    [][/\ call'.op = "_eval_arm_signals" =>
            /\ \A s \in Faults : disp'[s] = CaptureHandler
            /\ env.timeout > 0 => disp'[SIGPROF] = CaptureHandler /\ timer' > 0
            /\ env.timeout <= 0 => disp'[SIGPROF] = disp[SIGPROF] /\ timer' = timer
       /\ (call'.op = "_eval_disarm_signals" /\ env.timeout <= 0) =>
            disp'[SIGPROF] = disp[SIGPROF] /\ timer' = timer]_vars

\* the same with the timer as setitimer is given it: the whole microseconds
\* of the timeout, which are none for a timeout below one microsecond
ArmRuleInMicroseconds ==
    [][/\ call'.op = "_eval_arm_signals" =>
            /\ \A s \in Faults : disp'[s] = CaptureHandler
            /\ env.timeout > 0 =>
                  /\ disp'[SIGPROF] = CaptureHandler
                  /\ timer' = ItimerValue(env.timeout)
                  /\ timer' > 0 <=> env.timeout >= SubUsec
            /\ env.timeout <= 0 => disp'[SIGPROF] = disp[SIGPROF] /\ timer' = timer
       /\ (call'.op = "_eval_disarm_signals" /\ env.timeout <= 0) =>
            disp'[SIGPROF] = disp[SIGPROF] /\ timer' = timer]_vars

\* a cycle was armed with a timeout of half a microsecond: SIGPROF is
\* directed to _eval_sighandler and no timer runs
C23_Witness ==
    /\ call.op = "_eval_arm_signals"
    /\ env.timeout > 0
    /\ env.timeout < SubUsec
    /\ disp[SIGPROF] = CaptureHandler
    /\ timer = 0

\* the step is the expiry of the timer
Expiry == call'.op = "fault" /\ call'.text = <<SIGPROF>>

\* the timer is single-shot, only _eval_arm_signals starts it, and none is
\* pending after _eval_disarm_signals
SingleShot ==
    /\ Expiry => timer = 1 /\ timer' = 0
    /\ (timer = 0 /\ timer' > 0) => call'.op = "_eval_arm_signals"
    /\ call'.op = "_eval_disarm_signals" => timer' = 0
    /\ (pc = "driver" /\ pc' = "driver") => ~Expiry /\ timer' = 0

\* C24: the timer of the timeout is single-shot, so that in one armed cycle
\* its expiry causes at most one escape; after _eval_disarm_signals no timer
\* is pending, so that no timeout signal is delivered between a disarm and
\* the next arm; and each _eval_arm_signals with timeout > 0 starts a timer
\* with the whole configured time, however much of it the previous cycle used.
C24_TimerDiscipline ==
    [][/\ SingleShot
       /\ (call'.op = "_eval_arm_signals" /\ env.timeout > 0) =>
             timer' > 0 /\ timer' = ItimerValue(env.timeout)]_vars

\* the same with the timer that setitimer is given, which is none for a
\* timeout below one microsecond
TimerDisciplineInMicroseconds ==
    [][/\ SingleShot
       /\ (call'.op = "_eval_arm_signals" /\ env.timeout > 0) =>
             timer' = ItimerValue(env.timeout)]_vars

\* after a cycle that ended by an escape, a cycle was armed with a timeout of
\* half a microsecond and has no timer
C24_Witness ==
    /\ call.op = "_eval_arm_signals"
    /\ stats.error > 0
    /\ env.stat = Normal
    /\ env.timeout = 1
    /\ ItimerValue(env.timeout) = 0
    /\ pc = "tested"
    /\ timer = 0

\* the step is a signal sig handled by _eval_sighandler
Handled(sig) ==
    /\ call'.op = "fault"
    /\ call'.text = <<sig>>
    /\ disp[sig] = CaptureHandler

\* C25: _eval_sighandler does three things only: it records the number of
\* the signal, sets the outcome and transfers control to the recovery point;
\* it prints no message and changes neither the error counter nor the info
\* counter.
C25_HandlerOnlyRecords ==
    [][\A sig \in Signals :
         Handled(sig) =>
            /\ env'.signal = sig
            /\ env'.stat = EVAL_CATCH_SIGNAL
            /\ pc' = "recovered"
            /\ stats' = stats]_vars

\* what the handler does: eval_error prints a message and counts an error
\* before the signal is recorded and control is transferred
HandlerReportsAndRecords ==
    [][\A sig \in Signals :
         Handled(sig) =>
            /\ env'.signal = sig
            /\ env'.stat = EVAL_CATCH_SIGNAL
            /\ pc' = "recovered"
            /\ stats' = [stats EXCEPT !.error = @ + 1]]_vars

\* _eval_sighandler handled the first SIGSEGV of a run and an error is counted
C25_Witness ==
    /\ call.op = "fault"
    /\ call.text = <<SIGSEGV>>
    /\ pc = "recovered"
    /\ env.signal = SIGSEGV
    /\ env.stat = EVAL_CATCH_SIGNAL
    /\ stats = [error |-> 1, info |-> 0]

-----------------------------------------------------------------------------
(* Properties of the outcome of a capture cycle *)

\* the text each outcome is described by
ExpectedTermination ==
    CASE env.stat = Normal -> <<"code returned normally">>
      [] env.stat = EVAL_CATCH_EXIT -> <<"exit(", Dec(rec["exit"].status), ") called">>
      [] env.stat = EVAL_CATCH_ABORT -> <<"abort() called">>
      [] env.stat = EVAL_CATCH_BLOCKED -> <<"blocked function called">>
      [] env.stat = EVAL_CATCH_SIGNAL ->
            CASE env.signal = SIGSEGV -> <<"signal ", "Segmentation fault", " caught">>
              [] env.signal = SIGBUS -> <<"signal ", "Bus error", " caught">>
              [] env.signal = SIGFPE -> <<"signal ", "Floating point exception", " caught">>
              [] env.signal = SIGILL -> <<"signal ", "Illegal instruction", " caught">>
              [] env.signal = SIGPROF -> <<"signal ", "Profiling timer expired", " caught">>
              [] OTHER -> <<"Unknown signal ", env.signal, " caught">>
      [] env.stat = EVAL_CATCH_LOG_OVERFLOW -> <<"log buffer full">>
      [] OTHER -> <<"abnormal termination">>

\* C26: eval_termination is a function of the stored outcome: 0 gives "code
\* returned normally", EVAL_CATCH_EXIT "exit(N) called" with N the status
\* stored by the exit intercept, EVAL_CATCH_ABORT "abort() called",
\* EVAL_CATCH_BLOCKED "blocked function called", EVAL_CATCH_SIGNAL "signal
\* <name> caught" for the recorded signal or the fallback with its number,
\* EVAL_CATCH_LOG_OVERFLOW "log buffer full", any other value "abnormal
\* termination"; the text depends on the stored outcome only, so that a
\* second call without a change of state gives the same text, and the call
\* changes no other state.
C26_TerminationText ==
    [][call'.op = "eval_termination" =>
          /\ call'.ret = ExpectedTermination
          /\ UNCHANGED <<logs, consumed, stats, env, disp, timer, pc, probe, rec,
                         errno, hist>>]_vars

\* eval_termination described an exit with status 7
C26_Witness ==
    /\ call.op = "eval_termination"
    /\ env.stat = EVAL_CATCH_EXIT
    /\ rec["exit"].status = 7
    /\ call.ret = <<"exit(", "7", ") called">>

\* the step is a call of the exit intercept by the tested code of an armed
\* capture cycle
ExitInCycle == call'.op = "exit" /\ pc = "tested" /\ env.catch

LocalError(op, a, action) ==
    \/ ProbedInvalid(op, a)
    \/ Reserved(op, a)
    \/ op = "fseek" /\ a[3] \notin Whences
    \/ op = "kill" /\ action = ACTION_PROTECT /\ a[1] \in { SelfPid, ParentPid, 0, -1 }

\* the step is such a call, made by the tested code of an armed capture
\* cycle under an action other than ACTION_BLOCK
RecoveredInPlace(op) ==
    /\ call'.op = op
    /\ pc = "tested"
    /\ env.catch
    /\ rec[op].action # ACTION_BLOCK
    /\ LocalError(op, call'.arg, rec[op].action)

\* the call counted an error and returned to the tested code, the cycle
\* being armed as before and without an outcome
Continues ==
    /\ stats'.error >= stats.error + 1
    /\ call'.text = <<Normal>>
    /\ pc' = "tested"
    /\ env' = env
    /\ env'.stat = Normal
    /\ disp' = disp

\* C28: the errors recovered in place never end the capture cycle: a call
\* that meets an invalid pointer, an unsupported parameter (a reserved
\* signal, a bad whence of fseek) or a protected target of kill, under any
\* action but ACTION_BLOCK, raises the error counter by at least 1, returns
\* to the tested code, and leaves the cycle armed with no outcome recorded.
C28_LocalErrorsContinue ==
    [][\A op \in Ops : RecoveredInPlace(op) => Continues]_vars

\* the calls that do not return although the error is one of these: atoi
\* reads the invalid string, sigaction under ACTION_LOG reads an invalid act,
\* and fclose, under the actions it has no case for, closes the invalid stream
Unrecovered(op, a, action) ==
    \/ CopiesInvalid(op, a)
    \/ action = ACTION_LOG /\ ReadsAct(op, a)
    \/ op = "fclose" /\ action \notin { ACTION_ERROR, ACTION_LOG, ACTION_SUCCESS }

\* the same of every call but those, and but the calls under ACTION_LOG that
\* find the data log full
LocalErrorsContinueButThree ==
    [][\A op \in Ops :
         (/\ RecoveredInPlace(op)
          /\ ~Unrecovered(op, call'.arg, rec[op].action)
          /\ call'.text # <<EVAL_CATCH_LOG_OVERFLOW>>) => Continues]_vars

\* atoi, called in a capture cycle with an invalid string under ACTION_ERROR,
\* ended the cycle with a caught SIGSEGV
C28_Witness ==
    /\ call.op = "atoi"
    /\ rec["atoi"].action = ACTION_ERROR
    /\ InvalidConst(call.arg[1])
    /\ call.text = <<SIGSEGV>>
    /\ pc = "recovered"
    /\ env.stat = EVAL_CATCH_SIGNAL

\* the step is a signal caught in an armed cycle: a fault of the tested code,
\* or the expiry of the timer
Caught(sig) ==
    /\ call'.op = "fault"
    /\ call'.text = <<sig>>
    /\ env.catch
    /\ disp[sig] = CaptureHandler

\* each caught signal escapes to the recovery point with the outcome
\* EVAL_CATCH_SIGNAL and its number
EscapesWithTag ==
    \A sig \in Signals :
       Caught(sig) =>
          /\ pc' = "recovered"
          /\ env'.stat = EVAL_CATCH_SIGNAL
          /\ env'.signal = sig

\* from the recovery point control goes to the driver only
NeverResumes == pc = "recovered" => pc' \in { "recovered", "driver" }

\* C29: every capture cycle produces exactly one outcome: a caught fault and
\* the expiry of the timer (as a call under ACTION_BLOCK and the overflow of
\* a log) escape to the recovery point with their own tag, the tested code
\* does not resume after an escape, and no second escape happens in the same
\* cycle.
C29_OneOutcomePerCycle ==
    [][/\ EscapesWithTag
       /\ NeverResumes
       /\ pc = "recovered" =>
             /\ call'.op # "fault"
             /\ env'.stat = env.stat
             /\ env'.signal = env.signal]_vars

\* the same but for the timer, which runs until _eval_disarm_signals: when it
\* expires at the recovery point, _eval_sighandler escapes a second time and
\* the outcome becomes that of SIGPROF
OneOutcomeButTimer ==
    [][/\ EscapesWithTag
       /\ NeverResumes
       /\ pc = "recovered" =>
             IF call'.op = "fault"
             THEN /\ call'.text = <<SIGPROF>>
                  /\ timer = 1
                  /\ env'.stat = EVAL_CATCH_SIGNAL
                  /\ env'.signal = SIGPROF
                  /\ stats'.error = stats.error + 1
             ELSE env'.stat = env.stat /\ env'.signal = env.signal]_vars

\* a cycle escaped on SIGSEGV and is at the recovery point with its timer
\* still running and SIGPROF directed to _eval_sighandler
C29_Witness ==
    /\ pc = "recovered"
    /\ call.op = "fault"
    /\ call.text = <<SIGSEGV>>
    /\ env.stat = EVAL_CATCH_SIGNAL
    /\ env.signal = SIGSEGV
    /\ env.catch
    /\ timer = 1
    /\ disp[SIGPROF] = CaptureHandler

-----------------------------------------------------------------------------
(* Properties of the statistics *)

NoStats == [error |-> 0, info |-> 0]

CountersNeverDecrease ==
    [][(stats'.error < stats.error \/ stats'.info < stats.info) =>
          (call'.op \in { "eval_reset_stats", "eval_reset" } /\ stats' = NoStats)]_vars

-----------------------------------------------------------------------------
(* Properties of the assertions on the logs *)

\* the log holds a line that was appended and not yet removed
Unconsumed(log) == 0 <= log.start /\ log.start < log.end

\* C31: loghead returns the text of the oldest unconsumed line when the log
\* has one, and "<empty>" whenever the log has no unconsumed line: after
\* initlog, and also after every appended line was removed by rmheadmsg.
C31_LogheadOrEmpty ==
    [][call'.op = "loghead" =>
         call'.ret = IF Unconsumed(logs[call'.log])
                     THEN logs[call'.log].buffer[logs[call'.log].start]
                     ELSE EmptyText]_vars

\* what loghead does: "<empty>" only while the head index is -1, otherwise
\* the line stored at the head index, whether it was appended or not
LogheadReadsHeadIndex ==
    [][call'.op = "loghead" /\ logs[call'.log].start < LOGSIZE =>
         call'.ret = IF logs[call'.log].start < 0
                     THEN EmptyText
                     ELSE logs[call'.log].buffer[logs[call'.log].start]]_vars

\* the only line appended was removed, and loghead returned the line stored
\* behind it, which is not "<empty>"
C31_Witness ==
    /\ call.op = "loghead"
    /\ logs[call.log].end = 1
    /\ logs[call.log].start = 1
    /\ Len(consumed[call.log]) = 1
    /\ call.ret # EmptyText

\* the step is a call of eval_check_successlog or eval_check_errorlog
CheckCall == call'.op \in { "eval_check_successlog", "eval_check_errorlog" }

\* the call returned 1, removed the head line and counted one more info
CheckPassed ==
    /\ call'.ret = 1
    /\ logs' = [logs EXCEPT ![call'.log].start = @ + 1]
    /\ stats' = [stats EXCEPT !.info = @ + 1]

\* the call returned 0, left the logs alone and counted one more error
CheckFailed ==
    /\ call'.ret = 0
    /\ logs' = logs
    /\ stats' = [stats EXCEPT !.error = @ + 1]

FirstChars(text, n) == [i \in 1..Min(Len(text), n) |-> text[i]]

CheckCutsMessage ==
    /\ call.op = "eval_check_errorlog"
    /\ call.ret = 1
    /\ Len(call.text) = LOGLINE - 1
    /\ Len(consumed["error"]) <= logs["error"].end
    /\ consumed["error"] # <<>>
    /\ consumed["error"][Len(consumed["error"])] # call.text
    /\ ~Occurs(call.text, consumed["error"][Len(consumed["error"])])

-----------------------------------------------------------------------------
(* Properties of eval_reset *)

\* C33: after eval_reset, from any prior state, every intercept's invocation
\* counter is 0; every intercept's action is DEFAULT except pause, execl,
\* wait, waitpid and raise, which are BLOCK, and kill, which is PROTECT; both
\* statistics counters are 0; and the timeout is EVAL_TIMEOUT.
C33_ResetState ==
    [][call'.op = "eval_reset" =>
         /\ \A op \in Ops :
               /\ rec'[op].status = 0
               /\ rec'[op].action =
                     CASE op \in { "pause", "execl", "wait", "waitpid", "raise" } ->
                             ACTION_BLOCK
                       [] op = "kill" -> ACTION_PROTECT
                       [] OTHER -> ACTION_DEFAULT
         /\ stats' = [error |-> 0, info |-> 0]
         /\ env'.timeout = EVAL_TIMEOUT]_vars

\* eval_reset was called after a capture cycle in which the configured
\* intercept was called and had the wrapped function called
C33_Witness ==
    /\ call.op = "eval_reset"
    /\ hist.ran
    /\ hist.real = 1
    /\ pc = "driver"
    /\ \A op \in Ops : rec[op].status = 0

-----------------------------------------------------------------------------
(* Properties of the probe inside a capture cycle *)

\* the step is the probe's access to memory, made while a capture cycle is
\* armed, and the access raises sig
ProbeFaults(sig) ==
    /\ call'.op = "probing"
    /\ call'.ret = 1
    /\ pc = "tested"
    /\ AccessFault(probe.ptr, probe.const) = sig

\* the step is the return of a probe whose access had raised sig, in an
\* armed capture cycle
ProbeReturns(sig) ==
    /\ call'.op \in { "eval_checkptr", "eval_checkconstptr" }
    /\ probe.pc = "accessed"
    /\ probe.sig = sig
    /\ pc = "tested"

\* C34: a fault raised by the probe's own memory access while a capture cycle
\* is armed is handled by the probe's handler and not by the capture
\* handler: the probe returns 3 for SIGSEGV and 4 for SIGBUS, no escape to
\* the recovery point happens, _eval_env.signal and _eval_env.stat are
\* unchanged, and the tested code continues.
C34_ProbeFaultStaysInProbe ==
    [][\A sig \in { SIGSEGV, SIGBUS } :
         /\ ProbeFaults(sig) =>
               /\ disp[sig] = ProbeHandler
               /\ probe'.stat = 1 /\ probe'.sig = sig
               /\ pc' = "tested"
               /\ env' = env
               /\ stats' = stats
         /\ ProbeReturns(sig) =>
               /\ call'.ret = (IF sig = SIGSEGV THEN 3 ELSE 4)
               /\ pc' = "tested"
               /\ env' = env
               /\ env.stat = Normal
               /\ disp'[SIGSEGV] = CaptureHandler]_vars

\* in an armed capture cycle the probe of a misaligned address returned 4
\* and the tested code goes on, the capture handlers in place
C34_Witness ==
    /\ call.op = "eval_checkptr"
    /\ call.arg = <<"misaligned">>
    /\ call.ret = 4
    /\ pc = "tested"
    /\ env.catch
    /\ env.stat = Normal
    /\ env.signal = NoSignal
    /\ disp[SIGSEGV] = CaptureHandler
    /\ disp[SIGBUS] = CaptureHandler

-----------------------------------------------------------------------------
(* Properties of sending and receiving messages *)

\* msgsnd was called under ACTION_SUCCESS with a valid message buffer, whose
\* copy _eval_msgsnd_data.msgp holds
Sent ==
    /\ rec["msgsnd"].action = ACTION_SUCCESS
    /\ rec["msgsnd"].status >= 1
    /\ rec["msgsnd"].msgp = HeapCopy

\* the step is a call of msgrcv under ACTION_INJECT with a valid buffer
Injected ==
    /\ call'.op = "msgrcv"
    /\ rec["msgrcv"].action = ACTION_INJECT
    /\ call'.arg[2] = "rw"

\* C35: after a call of msgsnd under ACTION_SUCCESS with a valid message m of
\* body size n, every following call of msgrcv under ACTION_INJECT with a
\* valid buffer of size >= n copies the type and body of m, as captured by
\* the send, to the caller's buffer without calling the real msgrcv: the
\* first such call and the second one alike.
C35_SendReceiveRoundTrip ==
    [][(Sent /\ Injected /\ call'.arg[3] >= rec["msgsnd"].msgsz) =>
         /\ call'.text = <<Normal>>
         /\ hist'.copy = <<rec["msgsnd"].msgp, rec["msgsnd"].msgsz>>
         /\ hist'.real = 0]_vars

\* what msgrcv does under ACTION_INJECT: it copies from the buffer
\* _eval_msgrcv_data.msgp, which after eval_reset is NULL and after an
\* earlier receive is that receive's buffer, and faults if it cannot be read
InjectCopiesFromMsgrcvData ==
    [][Injected =>
         /\ hist'.real = 0
         /\ IF rec["msgrcv"].msgp \in { "NULL", "unmapped" }
            THEN call'.text = <<SIGSEGV>> /\ hist'.copy = <<>>
            ELSE /\ call'.text = <<Normal>>
                 /\ hist'.copy = <<rec["msgrcv"].msgp,
                                   Min(call'.arg[3], rec["msgrcv"].msgsz)>>
                 /\ rec'["msgrcv"].msgp = call'.arg[2]]_vars

\* a message was sent under ACTION_SUCCESS and captured, and the receive
\* under ACTION_INJECT that followed faulted on the NULL _eval_msgrcv_data.msgp
\* and ended the capture cycle with SIGSEGV
C35_Witness ==
    /\ Sent
    /\ call.op = "msgrcv"
    /\ rec["msgrcv"].action = ACTION_INJECT
    /\ call.arg[2] = "rw"
    /\ call.arg[3] = 4
    /\ call.text = <<SIGSEGV>>
    /\ pc = "recovered"
    /\ env.signal = SIGSEGV
    /\ hist.copy = <<>>

-----------------------------------------------------------------------------
(* Properties of clearing and closing the logs *)

\* the unconsumed lines of a log, oldest first
UnconsumedLines(log) ==
    IF Unconsumed(log)
    THEN [i \in 1..(log.end - log.start) |-> log.buffer[log.start + i - 1]]
    ELSE <<>>

\* the three logs are empty, with head -1 and tail 0
Cleared == \A l \in LogIds : logs'[l].start = -1 /\ logs'[l].end = 0

\* C36 as stated: eval_close_logs enumerates every unconsumed line of the logs
\* before clearing them and leaves all three logs (success, error, data)
\* empty with head -1 and tail 0; eval_clear_logs gives the same final log
\* state; neither changes the error counter.
C36_CloseEnumeratesAllLogs ==
    [][/\ call'.op = "eval_close_logs" =>
            /\ \A l \in LogIds :
                  UnconsumedLines(logs[l]) =
                      IF l \in DOMAIN call'.ret THEN call'.ret[l] ELSE <<>>
            /\ Cleared
            /\ stats'.error = stats.error
       /\ call'.op = "eval_clear_logs" =>
            /\ Cleared
            /\ stats'.error = stats.error]_vars

\* C36 amended: eval_close_logs enumerates every unconsumed line of the
\* success log and of the error log, counting one info message for each of
\* the two that has such lines, and no line of the data log; it then leaves
\* all three logs empty with head -1 and tail 0, the state eval_clear_logs
\* leaves; neither changes the error counter.
C36_CloseEnumeratesSuccessAndError ==
    [][/\ call'.op = "eval_close_logs" =>
            /\ DOMAIN call'.ret = { "success", "error" }
            /\ \A l \in { "success", "error" } :
                  call'.ret[l] = UnconsumedLines(logs[l])
            /\ Cleared
            /\ \A l \in LogIds : logs'[l].buffer = logs[l].buffer
            /\ stats'.error = stats.error
            /\ stats'.info = stats.info +
                  Cardinality({ l \in { "success", "error" } : Unconsumed(logs[l]) })
       /\ call'.op = "eval_clear_logs" =>
            /\ Cleared
            /\ \A l \in LogIds : logs'[l].buffer = logs[l].buffer
            /\ stats' = stats]_vars

\* eval_close_logs printed the one line left on the success log, the first
\* one having been consumed, and cleared a data log that held a line
C36_Witness ==
    /\ call.op = "eval_close_logs"
    /\ Len(call.ret["success"]) = 1
    /\ call.ret["success"][1] # <<"a">>
    /\ call.ret["error"] = <<>>
    /\ logs["data"].buffer[0] # <<>>
    /\ \A l \in LogIds : logs[l].start = -1 /\ logs[l].end = 0
    /\ stats = [error |-> 0, info |-> 1]

-----------------------------------------------------------------------------
(* Properties of the calls made outside a capture cycle *)

\* the step is a call made while no capture cycle is armed
Disarmed == pc = "driver" /\ ~env.catch

\* the step took a siglongjmp: to the recovery point of the armed cycle, or
\* to the recovery point of no cycle or of a cycle that is over
Jumped == pc' \in { "recovered", "undefined" } /\ pc' # pc

\* C37: a nonlocal jump to the recovery point is taken only while a capture
\* cycle is armed: when exit, abort or an intercept under ACTION_BLOCK is
\* called, or a log overflows, while capture is disarmed, no jump to a stale
\* recovery point is made.
C37_JumpOnlyWhileArmed ==
    [][(Disarmed /\ call'.op \in Ops \cup { "eval_log" }) => ~Jumped]_vars

\* what holds: newline tests _eval_env.catch, so a log overflow outside a
\* capture cycle ends the process and does not jump; and every jump taken
\* while a cycle is armed lands at its recovery point
OverflowJumpsOnlyWhileArmed ==
    [][/\ (Disarmed /\ call'.op = "eval_log") =>
            /\ ~Jumped
            /\ logs[call'.log].end = LOGSIZE => pc' = "exited"
       /\ (pc = "tested" /\ Jumped) => pc' = "recovered" /\ env.catch]_vars

\* after a capture cycle was over, the driver called sleep under ACTION_BLOCK
\* and siglongjmp was taken on the jmp_buf of that cycle
C37_Witness ==
    /\ call.op = "sleep"
    /\ rec["sleep"].action = ACTION_BLOCK
    /\ hist.ran
    /\ ~env.catch
    /\ pc = "undefined"
    /\ stats.error >= 1

-----------------------------------------------------------------------------
(* Properties of ACTION_RETRY after calls under another action *)

\* the step is the first call of op under ACTION_RETRY since the last
\* eval_reset, op having been called k times under other actions before
FirstRetryAfter(op, k) ==
    /\ call'.op = op
    /\ rec[op].action = ACTION_RETRY
    /\ hist.retried = 0
    /\ rec[op].status = k

\* C38: the outcome of ACTION_RETRY is decided by the invocation counter
\* since the last reset: if msgget, semget or shmget was called k >= 1 times
\* under another action before the action is switched to ACTION_RETRY, the
\* first call under ACTION_RETRY is treated as call k+1: with k = 1 it
\* succeeds at once, returning the configured identifier, and with k >= 2 it
\* fails as exhausted, returning -1.
C38_RetryCountsEveryCall ==
    [][\A op \in { "msgget", "semget", "shmget" } :
         /\ FirstRetryAfter(op, 1) => call'.ret = ConfiguredId(op, rec[op])
         /\ (\E k \in 2..MaxCalls : FirstRetryAfter(op, k)) => call'.ret = -1]_vars

\* what holds: the counter decides. semget answers as the claim says, with
\* errno 0 and EINVAL. msgget does so for k = 1; for k >= 2 it sets errno to
\* EINVAL, returns what its previous call returned and writes -1 to the
\* result kept for shmget. shmget leaves errno alone, answers -1 for k >= 2,
\* and for k = 1 answers -1 if size is 0 and IPC_CREAT is set and the
\* identifier otherwise.
RetryCountsEveryCallButTwo ==
    [][\A op \in { "msgget", "semget", "shmget" } :
         /\ FirstRetryAfter(op, 1) =>
               IF op = "shmget"
               THEN /\ errno' = errno
                    /\ call'.ret = IF call'.arg[2] = 0 /\ call'.arg[3] = IPC_CREAT
                                   THEN -1 ELSE rec[op].shmid
               ELSE /\ errno' = NoError
                    /\ call'.ret = ConfiguredId(op, rec[op])
         /\ (\E k \in 2..MaxCalls : FirstRetryAfter(op, k)) =>
               CASE op = "msgget" -> /\ errno' = EINVAL
                                     /\ call'.ret = rec[op].ret
                                     /\ rec'["shmget"].ret = -1
                 [] op = "semget" -> errno' = EINVAL /\ call'.ret = -1
                 [] OTHER -> errno' = errno /\ call'.ret = -1]_vars

\* msgget was called twice under ACTION_SUCCESS, the action was switched to
\* ACTION_RETRY, and the call that followed set errno to EINVAL and returned
\* the identifier again
C38_Witness ==
    /\ call.op = "msgget"
    /\ rec["msgget"].action = ACTION_RETRY
    /\ rec["msgget"].status = 3
    /\ hist.retried = 1
    /\ call.ret = 5
    /\ errno = EINVAL
    /\ rec["shmget"].ret = -1

\* semget was called once under ACTION_ERROR, the action was switched to
\* ACTION_RETRY, and the call that followed returned the identifier at once
RetrySucceedsAtOnce ==
    /\ call.op = "semget"
    /\ rec["semget"].action = ACTION_RETRY
    /\ rec["semget"].status = 2
    /\ hist.retried = 1
    /\ call.ret = 5
    /\ errno = NoError

-----------------------------------------------------------------------------
(* Properties of a log overflow *)

\* the step is an append to a log that is full
Overflows == call'.op = "eval_log" /\ logs[call'.log].end = LOGSIZE

\* C39: a log overflow leaves the head and tail indices and the stored lines
\* of the overflowing log unchanged, leaves the other two logs unchanged, and
\* raises the error counter by exactly 2 before the escape to the recovery
\* point or the exit.
C39_OverflowFrame ==
    [][Overflows =>
         /\ logs'[call'.log].start = logs[call'.log].start
         /\ logs'[call'.log].end = logs[call'.log].end
         /\ logs'[call'.log].buffer = logs[call'.log].buffer
         /\ \A l \in LogIds \ { call'.log } : logs'[l] = logs[l]
         /\ consumed' = consumed
         /\ stats' = [stats EXCEPT !.error = @ + 2]
         /\ pc' \in { "recovered", "exited" }]_vars

\* outside a capture cycle an append to a full log, one line of which had
\* been removed, counted two errors and ended the process
C39_Witness ==
    /\ call.op = "eval_log"
    /\ call.ret = -1
    /\ pc = "exited"
    /\ logs[call.log].end = LOGSIZE
    /\ logs[call.log].start = 1
    /\ stats.error = 2

-----------------------------------------------------------------------------
(* Properties of _eval_env.signal *)

\* the step is the capture handler running for a signal
HandlerRuns ==
    /\ call'.op = "fault"
    /\ disp[call'.text[1]] = CaptureHandler

\* C40: _eval_env.signal is set to -1 by every arm and is written afterwards
\* only by the capture handler, which stores the number of the signal it
\* caught; so when a capture cycle ends, at the disarm, _eval_env.signal
\* differs from -1 if and only if the cycle ended with a caught signal
\* (_eval_env.stat is EVAL_CATCH_SIGNAL), and it is then one of the five
\* signals, the one the handler ran for last.
C40_LastSignal ==
    [][/\ call'.op = "_eval_arm_signals" => env'.signal = NoSignal
       /\ HandlerRuns =>
            /\ env'.signal = call'.text[1]
            /\ env'.stat = EVAL_CATCH_SIGNAL
            /\ pc' = "recovered"
       /\ (env'.signal # env.signal /\ call'.op # "_eval_arm_signals") => HandlerRuns
       /\ call'.op = "_eval_disarm_signals" =>
            /\ env'.signal = env.signal
            /\ env.signal # NoSignal <=> env.stat = EVAL_CATCH_SIGNAL
            /\ env.signal # NoSignal => env.signal \in Signals]_vars

\* the timer expired in the tested code, the handler ran for SIGPROF, and at
\* the end of the capture cycle _eval_env.signal holds SIGPROF
C40_Witness ==
    /\ call.op = "_eval_disarm_signals"
    /\ call.text = <<"e">>
    /\ env.signal = SIGPROF
    /\ env.stat = EVAL_CATCH_SIGNAL
    /\ env.timeout = 4
    /\ timer = 0
    /\ pc = "driver"

\* the same at the end of a capture cycle in which an intercept was called:
\* whatever the outcome, _eval_env.signal differs from -1 exactly when the
\* outcome is a caught signal
LastSignalAfterIntercepts ==
    [][call'.op = "_eval_disarm_signals" =>
         /\ env'.signal = env.signal
         /\ env.signal # NoSignal <=> env.stat = EVAL_CATCH_SIGNAL]_vars

====
